---- MODULE Spec2Model ----
(***************************************************************************)
(* A model of defconQt's glyph line view (controls/glyphLineView.py) and   *)
(* of the drawing-attribute tables it shares with controls/glyphView.py,   *)
(* and of three more controls: the accordion group                         *)
(* (controls/accordionBox.py), the indent guess of the code editor         *)
(* (controls/baseCodeEditor.py) and the list model (controls/listView.py). *)
(*                                                                         *)
(* Python None is the value None below.  Python floats are modelled as     *)
(* exact rationals <<numerator, denominator>> in lowest terms.             *)
(***************************************************************************)
EXTENDS Integers, Sequences, FiniteSets, TLC

\* ------------------------------------------------------------------------
\* Bounds of the model
\* ------------------------------------------------------------------------

\* longest record list handed to GlyphLineWidget.setGlyphRecords
MaxRecords == 3

\* longest glyph / record list handed to GlyphLineView.setGlyphRecords
MaxGlyphs == 2

\* longest record list laid out by the paint pass
MaxLine == 2

\* number of kerning groups per side that a font may define
MaxGroups == 2

\* number of named layers known to the drawing-attribute tables
MaxLayers == 1

\* most drawing flags switched on at once when a glyph is drawn
MaxFlags == 2

\* number of AccordionBox objects that may be constructed
MaxBoxes == 3

\* longest text handed to BaseCodeEditor.setPlainText, in characters
MaxText == 6

\* longest list handed to a OneTwoListModel
MaxRows == 4

\* ------------------------------------------------------------------------
\* Rationals
\* ------------------------------------------------------------------------

Abs(x) == IF x < 0 THEN -x ELSE x

RECURSIVE GCD(_, _)
GCD(a, b) == IF b = 0 THEN a ELSE GCD(b, a % b)

Rat(n, d) ==
    LET g == GCD(Abs(n), Abs(d))
        s == IF d < 0 THEN -1 ELSE 1
    IN  <<(s * n) \div g, (s * d) \div g>>

RInt(n) == <<n, 1>>
RAdd(a, b) == Rat(a[1] * b[2] + b[1] * a[2], a[2] * b[2])
RSub(a, b) == Rat(a[1] * b[2] - b[1] * a[2], a[2] * b[2])
RMul(a, b) == Rat(a[1] * b[1], a[2] * b[2])
RDiv(a, b) == Rat(a[1] * b[2], a[2] * b[1])
RLt(a, b) == a[1] * b[2] < b[1] * a[2]
RLe(a, b) == a[1] * b[2] <= b[1] * a[2]
RMax(a, b) == IF RLt(a, b) THEN b ELSE a

\* Python int(x): truncation towards zero
PyInt(a) == IF a[1] >= 0 THEN a[1] \div a[2] ELSE -((-a[1]) \div a[2])

Min(S) == CHOOSE x \in S : \A y \in S : x <= y

\* ------------------------------------------------------------------------
\* Names, fonts, glyphs
\* ------------------------------------------------------------------------

None == "None"

\* A name is a sequence of its dot-separated parts: "public.kern1.L" is
\* <<"public", "kern1", "L">>; str.startswith compares leading parts.
Kern1Marker == <<"public", "kern1">>
Kern2Marker == <<"public", "kern2">>

\* None in the place of a name
NoName == <<>>

StartsWith(name, marker) ==
    /\ Len(name) >= Len(marker)
    /\ SubSeq(name, 1, Len(marker)) = marker

Fonts == {"F1", "F2"}

\* the glyph objects of the model; D belongs to no font
Glyphs == {"A", "B", "C", "D"}

GlyphFont(g) ==
    CASE g = "A" -> "F1"
      [] g = "B" -> "F1"
      [] g = "C" -> "F2"
      [] OTHER   -> None

GlyphName(g) == <<g>>

GlyphWidth(g) ==
    CASE g = "A" -> 500
      [] g = "B" -> 500
      [] g = "C" -> 600
      [] OTHER   -> 400

\* font.info.unitsPerEm / font.info.descender of the model's fonts, as the
\* set holding the value (the empty set stands for None)
FontUpm(f) == IF f = "F1" THEN {1000} ELSE {2000}
FontDescender(f) == IF f = "F1" THEN {-250} ELSE {-500}

\* glyph.layerSet.layerOrder; a glyph without font has no layer set
LayerName(i) == <<"layerA", "layerB", "layerC">>[i]
LayerNames == {LayerName(i) : i \in 1..MaxLayers}
GlyphLayerOrder(g) ==
    IF GlyphFont(g) = None THEN <<>> ELSE [i \in 1..MaxLayers |-> LayerName(i)]

\* ------------------------------------------------------------------------
\* State
\* ------------------------------------------------------------------------

VARIABLES
    kerning,        \* font -> font.kerning: a function from name pairs to values
    groups,         \* font -> font.groups, in iteration order: <<[name, members]>>
    lookup,         \* the last _lookupKerningValue call: [first, second, result]
    applyKerning,   \* GlyphLineView._applyKerning
    observers,      \* the notification registry: {<<notification, object>>} of the view
    subError,       \* an addObserver on a registered / removeObserver on an unregistered pair happened
    subLast,        \* the observer calls of the last setGlyphRecords: [ordered, removes, adds]
    glyphRecords,   \* GlyphLineWidget._glyphRecords
    pointSize,      \* GlyphLineWidget._pointSize
    scale,          \* GlyphLineWidget._scale
    inverseScale,   \* GlyphLineWidget._inverseScale
    upm,            \* GlyphLineWidget._upm
    descender,      \* GlyphLineWidget._descender
    lineHeight,     \* GlyphLineWidget._lineHeight
    rightToLeft,    \* GlyphLineWidget._rightToLeft
    wrapLines,      \* GlyphLineWidget._wrapLines
    showLayers,     \* GlyphLineWidget._showLayers
    width,          \* QWidget.width() of the widget (and of its parent)
    sizeHint,       \* what the last sizeHint() call returned: <<width, height>>
    painted,        \* the last layout pass: [rects, lines, items, from], rects being _glyphRecordsRects
    widgetClass,    \* "GlyphLineWidget" or "GlyphWidget": whose attribute tables these are
    fallbackAttrs,  \* _fallbackDrawingAttributes
    layerAttrs,     \* _layerDrawingAttributes
    selected,       \* GlyphLineWidget._selected: {} for None, {i} for record index i
    trip,           \* history: the layout passes of a direction round trip over unchanged records
    drawn,          \* the draw operations of the last drawGlyph call, in order
    boxes,          \* the AccordionBox objects constructed so far
    checked,        \* box -> QGroupBox.isChecked() of that box
    accordions,     \* AccordionGroup._accordions
    currentAccordion, \* AccordionGroup._currentAccordion: {} for None, {a} for box a
    exclusive,      \* AccordionGroup._exclusive
    shadowed,       \* the group's instance attribute _setCurrentAccordion is None
    plainText,      \* BaseCodeEditor: the text of the document, a sequence of characters
    indent,         \* BaseCodeEditor._indent
    shouldGuessWhitespace, \* BaseCodeEditor._shouldGuessWhitespace
    fileText,       \* the text the application is about to put into the editor
    modelList,      \* OneTwoListModel._list
    lastOp          \* the handler that ran last, with its arguments and what it returned

kernVars == <<kerning, groups, lookup>>
subVars == <<applyKerning, observers, subError, subLast>>
scaleVars == <<pointSize, scale, inverseScale, upm, descender>>
layoutVars == <<lineHeight, rightToLeft, wrapLines, width, sizeHint, painted>>
attrVars == <<widgetClass, fallbackAttrs, layerAttrs, showLayers>>
paintVars == <<selected, trip, drawn>>
groupVars == <<boxes, checked, accordions, currentAccordion, exclusive, shadowed>>
editorVars == <<plainText, indent, shouldGuessWhitespace, fileText>>
listVars == <<modelList>>
controlVars == <<groupVars, editorVars, listVars>>
lineVars == <<kernVars, subVars, glyphRecords, scaleVars, layoutVars, attrVars,
              paintVars>>
vars == <<kernVars, subVars, glyphRecords, scaleVars, layoutVars, attrVars,
          paintVars, controlVars, lastOp>>

Op(name) == [op |-> name, attr |-> None, value |-> None, layer |-> None, result |-> None]

\* ------------------------------------------------------------------------
\* Kerning lookup
\* ------------------------------------------------------------------------

\* for group, groupMembers in groups.items(): if group.startswith(marker):
\*     if name in groupMembers: break
FirstGroupOf(grps, name, marker) ==
    LET hits == {i \in 1..Len(grps) : /\ StartsWith(grps[i].name, marker)
                                      /\ name \in grps[i].members}
    IN  IF hits = {} THEN NoName ELSE grps[Min(hits)].name

\* LookupPairs with the (group, glyph) pair tried before the (glyph, group) pair
LookupPairsGroupFirst(grps, first, second) ==
    LET firstIsGroup == StartsWith(first, Kern1Marker)
        secondIsGroup == StartsWith(second, Kern2Marker)
        firstGroup == IF firstIsGroup THEN first
                      ELSE FirstGroupOf(grps, first, Kern1Marker)
        secondGroup == IF secondIsGroup THEN second
                       ELSE FirstGroupOf(grps, second, Kern2Marker)
        first2 == IF firstIsGroup THEN NoName ELSE first
        second2 == IF secondIsGroup THEN NoName ELSE second
    IN  << <<first2, second2>>, <<firstGroup, second2>>,
           <<first2, secondGroup>>, <<firstGroup, secondGroup>> >>

\* the ordered list of pairs to look up after the exact pair was not found
LookupPairs(grps, first, second) ==
    LET firstIsGroup == StartsWith(first, Kern1Marker)
        secondIsGroup == StartsWith(second, Kern2Marker)
        firstGroup == IF firstIsGroup THEN first
                      ELSE FirstGroupOf(grps, first, Kern1Marker)
        secondGroup == IF secondIsGroup THEN second
                       ELSE FirstGroupOf(grps, second, Kern2Marker)
        first2 == IF firstIsGroup THEN NoName ELSE first
        second2 == IF secondIsGroup THEN NoName ELSE second
    IN  << <<first2, second2>>, <<first2, secondGroup>>,
           <<firstGroup, second2>>, <<firstGroup, secondGroup>> >>

LookupKerningValue(kern, grps, first, second) ==
    IF <<first, second>> \in DOMAIN kern THEN kern[<<first, second>>]
    ELSE LET pairs == LookupPairs(grps, first, second)
             hits == {i \in 1..Len(pairs) : pairs[i] \in DOMAIN kern}
         IN  IF hits = {} THEN 0 ELSE kern[pairs[Min(hits)]]

\* ------------------------------------------------------------------------
\* Fonts with kerning groups: the inputs of the kerning lookup
\* ------------------------------------------------------------------------

Kern1Group(i) == Kern1Marker \o <<i>>
Kern2Group(i) == Kern2Marker \o <<i>>

\* A is a member of every first-position group, B of the even ones too
Kern1Members(i) == IF i % 2 = 1 THEN {GlyphName("A")}
                   ELSE {GlyphName("A"), GlyphName("B")}
Kern2Members(i) == IF i % 2 = 1 THEN {GlyphName("B")}
                   ELSE {GlyphName("A"), GlyphName("B")}

\* the first k groups of each side, in ascending or descending iteration order
GroupList(k1, up1, k2, up2) ==
    [i \in 1..k1 |-> LET j == IF up1 THEN i ELSE k1 + 1 - i
                     IN  [name |-> Kern1Group(j), members |-> Kern1Members(j)]]
    \o
    [i \in 1..k2 |-> LET j == IF up2 THEN i ELSE k2 + 1 - i
                     IN  [name |-> Kern2Group(j), members |-> Kern2Members(j)]]

GroupChoices ==
    {GroupList(k1, up1, k2, up2) :
        k1 \in 0..MaxGroups, up1 \in BOOLEAN, k2 \in 0..MaxGroups, up2 \in BOOLEAN}

FirstNames == {GlyphName("A")} \cup {Kern1Group(i) : i \in 1..MaxGroups}
SecondNames == {GlyphName("B")} \cup {Kern2Group(i) : i \in 1..MaxGroups}
KernKeys == FirstNames \X SecondNames

\* every key of the model carries its own value, so the key that matched shows
KernValueOf(key) ==
    10 * (IF Len(key[1]) = 1 THEN 0 ELSE key[1][3])
       + (IF Len(key[2]) = 1 THEN 0 ELSE key[2][3]) - 50

\* kerning tables of at most two pairs
KernTables ==
    {[k \in S |-> KernValueOf(k)] : S \in {T \in SUBSET KernKeys : Cardinality(T) <= 2}}

LookupFirsts == {GlyphName("A"), GlyphName("B"), Kern1Group(1)}
LookupSeconds == {GlyphName("A"), GlyphName("B"), Kern2Group(1)}

NoLookup == [first |-> NoName, second |-> NoName, result |-> 0, done |-> FALSE]

\* ------------------------------------------------------------------------
\* Glyph records
\* ------------------------------------------------------------------------

\* GlyphRecord.__init__ (the alternates list plays no part in the model)
GlyphRecord(g) ==
    [glyph |-> g, xPlacement |-> 0, yPlacement |-> 0, xAdvance |-> 0,
     yAdvance |-> 0, advanceWidth |-> 0, advanceHeight |-> 0]

\* sequences over S of length at most n
SeqsUpTo(S, n) == UNION {[1..k -> S] : k \in 0..n}

Max(S) == CHOOSE x \in S : \A y \in S : x >= y

\* ------------------------------------------------------------------------
\* GlyphLineWidget: scale
\* ------------------------------------------------------------------------

Buffer == 15

MinScale == Rat(1, 100)

\* _calcScale with a clamp that lets a scale of 0 < s < 0.01 through
CalcScaleNoClamp(ps, u) ==
    LET s == RDiv(ps, RInt(u))
    IN  [scale |-> s, inverseScale |-> RDiv(RInt(1), s),
         pointSize |-> RMul(RInt(u), s)]

\* _calcScale: the new _scale, _inverseScale and _pointSize
CalcScale(ps, u) ==
    LET raw == RDiv(ps, RInt(u))
        s == IF RLt(raw, MinScale) THEN MinScale ELSE raw
    IN  [scale |-> s, inverseScale |-> RDiv(RInt(1), s),
         pointSize |-> RMul(RInt(u), s)]

\* the metrics setGlyphRecords takes from the fonts of the records
RecordFonts(recs) ==
    {GlyphFont(recs[i].glyph) : i \in 1..Len(recs)} \ {None}

NewUpm(recs, old) ==
    LET upms == UNION {FontUpm(f) : f \in RecordFonts(recs)}
    IN  IF upms # {} THEN Max(upms) ELSE old

NewDescender(recs, old) ==
    LET descenders == UNION {FontDescender(f) : f \in RecordFonts(recs)}
    IN  IF descenders # {} THEN Min(descenders) ELSE old

\* ------------------------------------------------------------------------
\* GlyphLineWidget: sizeHint
\* ------------------------------------------------------------------------

\* the extent of a record without its xPlacement
RecordExtentNoPlacement(rec, scl) ==
    RMul(RInt(rec.advanceWidth + rec.xAdvance), scl)

\* (advanceWidth + xPlacement + xAdvance) * self._scale
RecordExtent(rec, scl) ==
    RMul(RInt(rec.advanceWidth + rec.xPlacement + rec.xAdvance), scl)

\* the loop of the non-wrapping branch: width after the records from i on
RECURSIVE HintWidth(_, _, _, _)
HintWidth(recs, scl, i, w) ==
    IF i > Len(recs) THEN w
    ELSE HintWidth(recs, scl, i + 1, RAdd(w, RecordExtent(recs[i], scl)))

\* the loop of the wrapping branch: [curWidth, lines, width]
RECURSIVE HintWrap(_, _, _, _, _)
HintWrap(recs, scl, visibleWidth, i, acc) ==
    IF i > Len(recs) THEN acc
    ELSE LET gWidth == RecordExtent(recs[i], scl)
             break == RLt(RInt(visibleWidth), RAdd(acc.curWidth, gWidth))
             cur == IF break THEN RAdd(RInt(Buffer * 2), gWidth)
                    ELSE RAdd(acc.curWidth, gWidth)
         IN  HintWrap(recs, scl, visibleWidth, i + 1,
                      [curWidth |-> cur,
                       lines |-> IF break THEN acc.lines + 1 ELSE acc.lines,
                       width |-> RMax(cur, acc.width)])

HintLines(recs, scl, visibleWidth) ==
    HintWrap(recs, scl, visibleWidth, 1,
             [curWidth |-> RInt(Buffer * 2), lines |-> 1,
              width |-> RInt(Buffer * 2)]).lines

\* sizeHint(): the <<width, height>> handed to QSize
SizeHintOf(recs, scl, ps, lh, wrap, visibleWidth) ==
    IF ~wrap
    THEN <<HintWidth(recs, scl, 1, RInt(Buffer * 2)),
           RAdd(RInt(Buffer * 2), RMul(ps, lh))>>
    ELSE LET acc == HintWrap(recs, scl, visibleWidth, 1,
                             [curWidth |-> RInt(Buffer * 2), lines |-> 1,
                              width |-> RInt(Buffer * 2)])
         IN  <<acc.width,
               RAdd(RInt(Buffer * 2), RMul(RMul(RInt(acc.lines), ps), lh))>>

\* ------------------------------------------------------------------------
\* Drawing attributes (GlyphLineWidget and GlyphWidget)
\* ------------------------------------------------------------------------

Get(d, k) == IF k \in DOMAIN d THEN d[k] ELSE None

EmptyDict == [k \in {} |-> None]

LineWidgetDefaults ==
    [a \in {"showGlyphFill", "showGlyphStroke", "showGlyphOnCurvePoints",
            "showGlyphStartPoints", "showGlyphOffCurvePoints",
            "showGlyphPointCoordinates", "showGlyphAnchors", "showGlyphImage",
            "showGlyphMargins", "showFontVerticalMetrics",
            "showFontPostscriptBlues", "showFontPostscriptFamilyBlues"}
        |-> IF a = "showGlyphFill" THEN "True" ELSE "False"]

GlyphWidgetDefaults ==
    [a \in {"showGlyphFill", "showGlyphStroke", "showGlyphOnCurvePoints",
            "showGlyphStartPoints", "showGlyphOffCurvePoints",
            "showGlyphPointCoordinates", "showGlyphAnchors", "showGlyphImage",
            "showGlyphMargins", "showFontVerticalMetrics",
            "showFontVerticalMetricsTitles",
            "showFontPostscriptBlues", "showFontPostscriptFamilyBlues"}
        |-> IF a \in {"showGlyphFill", "showGlyphPointCoordinates",
                      "showFontPostscriptBlues", "showFontPostscriptFamilyBlues"}
            THEN "False" ELSE "True"]

\* drawingAttribute with a layer's missing value taken from the fallback
DrawingAttributeFallThrough(fb, la, attr, layerName) ==
    IF layerName = None THEN Get(fb, attr)
    ELSE LET d == IF layerName \in DOMAIN la THEN la[layerName] ELSE EmptyDict
         IN  IF attr \in DOMAIN d THEN d[attr] ELSE Get(fb, attr)

\* drawingAttribute(attr, layerName)
DrawingAttribute(fb, la, attr, layerName) ==
    IF layerName = None THEN Get(fb, attr)
    ELSE LET d == IF layerName \in DOMAIN la THEN la[layerName] ELSE EmptyDict
         IN  Get(d, attr)

\* d[k] = v on a dict
Put(d, k, v) == [x \in DOMAIN d \cup {k} |-> IF x = k THEN v ELSE d[x]]

\* setDrawingAttribute that also stores a layer's value in the fallback
SetDrawingAttributeBoth(fb, la, attr, value, layerName) ==
    [fallback |-> Put(fb, attr, value),
     layers |-> IF layerName = None THEN la
                ELSE Put(la, layerName,
                         Put(IF layerName \in DOMAIN la THEN la[layerName]
                             ELSE EmptyDict, attr, value))]

\* setDrawingAttribute(attr, value, layerName): the two tables afterwards
SetDrawingAttribute(fb, la, attr, value, layerName) ==
    IF layerName = None
    THEN [fallback |-> Put(fb, attr, value), layers |-> la]
    ELSE [fallback |-> fb,
          layers |-> Put(la, layerName,
                         Put(IF layerName \in DOMAIN la THEN la[layerName]
                             ELSE EmptyDict, attr, value))]

\* setShowLayers(value): the layer table is rebuilt from the records' layers
ShowLayersAttrs(recs, value) ==
    IF ~value THEN EmptyDict
    ELSE LET names == UNION {{GlyphLayerOrder(recs[i].glyph)[j] :
                                  j \in 1..Len(GlyphLayerOrder(recs[i].glyph))} :
                             i \in 1..Len(recs)}
         IN  [n \in names |-> [a \in {"showGlyphFill"} |-> "True"]]

\* ------------------------------------------------------------------------
\* GlyphLineWidget: drawGlyph
\* ------------------------------------------------------------------------

\* the keyword parameters the functions of tools/drawing.py declare
AcceptedKeywords(fn) ==
    CASE fn = "drawGlyphImage" -> {}
      [] fn = "drawFontPostscriptBlues" -> {"color"}
      [] fn = "drawFontPostscriptFamilyBlues" -> {"color"}
      [] fn = "drawFontVerticalMetrics" -> {"drawLines", "drawText", "color"}
      [] fn = "drawGlyphMargins" ->
             {"drawFill", "drawStroke", "fillColor", "strokeColor"}
      [] fn = "drawGlyphFillAndStroke" ->
             {"drawFill", "drawStroke", "contourFillColor", "contourStrokeColor",
              "componentFillColor", "componentStrokeColor", "strokeWidth"}
      [] fn = "drawGlyphPoints" ->
             {"drawStartPoints", "drawOnCurves", "drawOffCurves",
              "drawCoordinates", "onCurveColor", "otherColor", "backgroundColor"}
      [] fn = "drawGlyphAnchors" -> {"drawAnchors", "drawText", "color"}

\* the function of tools/drawing.py a helper of the line widget calls
DrawingFunction(helper) ==
    CASE helper = "drawImage" -> "drawGlyphImage"
      [] helper = "drawBlues" -> "drawFontPostscriptBlues"
      [] helper = "drawFamilyBlues" -> "drawFontPostscriptFamilyBlues"
      [] helper = "drawMargins" -> "drawGlyphMargins"
      [] helper = "drawVerticalMetrics" -> "drawFontVerticalMetrics"
      [] helper = "drawFillAndStroke" -> "drawGlyphFillAndStroke"
      [] helper = "drawPoints" -> "drawGlyphPoints"
      [] helper = "drawAnchors" -> "drawGlyphAnchors"

\* the keyword arguments the helper passes in its call
PassedKeywords(helper) ==
    CASE helper = "drawImage" -> {"backgroundColor"}
      [] helper = "drawBlues" -> {"backgroundColor"}
      [] helper = "drawFamilyBlues" -> {"backgroundColor"}
      [] helper = "drawMargins" -> {"backgroundColor"}
      [] helper = "drawVerticalMetrics" -> {"drawText", "backgroundColor", "flipped"}
      [] helper = "drawFillAndStroke" ->
             {"drawFill", "drawStroke", "contourFillColor", "componentFillColor",
              "backgroundColor"}
      [] helper = "drawPoints" ->
             {"drawStartPoint", "drawOnCurves", "drawOffCurves", "drawCoordinates",
              "backgroundColor", "flipped"}
      [] helper = "drawAnchors" -> {"drawText", "backgroundColor", "flipped"}

\* a call with a keyword the function does not declare raises TypeError
HelperRaises(helper) ==
    ~(PassedKeywords(helper) \subseteq AcceptedKeywords(DrawingFunction(helper)))

\* the truth value of what drawingAttribute returns
Shown(fb, la, attr, layerName) == DrawingAttribute(fb, la, attr, layerName) = "True"

\* glyph.layerSet of a displayed glyph: its layers in layerOrder, those that
\* hold a glyph of its name, and the layer the glyph itself is in
GlyphLayers(g) ==
    [hasLayerSet |-> GlyphFont(g) # None,
     order |-> GlyphLayerOrder(g),
     present |-> {GlyphLayerOrder(g)[i] : i \in 1..Len(GlyphLayerOrder(g))},
     own |-> IF GlyphFont(g) = None THEN None ELSE LayerName(1)]

\* drawGlyph: the layers it gathers, the glyph's own layer as None
RECURSIVE GatherLayers(_, _)
GatherLayers(gl, i) ==
    IF i = 0 THEN <<>>
    ELSE (IF gl.order[i] \notin gl.present THEN <<>>
          ELSE IF gl.order[i] = gl.own THEN <<None>>
          ELSE <<gl.order[i]>>)
         \o GatherLayers(gl, i - 1)

DrawLayers(show, gl) ==
    IF ~gl.hasLayerSet \/ ~show THEN <<None>>
    ELSE GatherLayers(gl, Len(gl.order))

\* a call of a helper for a layer: what it asks the drawing function for
Call(helper, layerName, detail) ==
    [op |-> helper, layer |-> layerName, detail |-> detail,
     raised |-> HelperRaises(helper)]

\* drawPoints: the keyword values it computes
PointsDetail(fb, la, ps, layerName) ==
    (IF Shown(fb, la, "showGlyphStartPoints", layerName) /\ RLt(RInt(175), ps)
     THEN {"startPoints"} ELSE {})
    \cup (IF Shown(fb, la, "showGlyphOnCurvePoints", layerName) /\ RLt(RInt(175), ps)
          THEN {"onCurves"} ELSE {})
    \cup (IF Shown(fb, la, "showGlyphOffCurvePoints", layerName) /\ RLt(RInt(175), ps)
          THEN {"offCurves"} ELSE {})
    \cup (IF Shown(fb, la, "showGlyphPointCoordinates", layerName)
             /\ RLt(RInt(250), ps)
          THEN {"coordinates"} ELSE {})

\* drawFillAndStroke: drawFill and drawStroke
FillDetail(fb, la, layerName) ==
    (IF Shown(fb, la, "showGlyphFill", layerName) THEN {"fill"} ELSE {})
    \cup (IF Shown(fb, la, "showGlyphStroke", layerName) THEN {"stroke"} ELSE {})

\* the body of the loop over the layers: the helper calls for one layer
LayerCalls(fb, la, ps, layerName) ==
    (IF Shown(fb, la, "showGlyphImage", layerName)
     THEN <<Call("drawImage", layerName, {})>> ELSE <<>>)
    \o (IF layerName = None /\ Shown(fb, la, "showFontPostscriptBlues", None)
        THEN <<Call("drawBlues", layerName, {})>> ELSE <<>>)
    \o (IF layerName = None /\ Shown(fb, la, "showFontPostscriptFamilyBlues", None)
        THEN <<Call("drawFamilyBlues", layerName, {})>> ELSE <<>>)
    \o (IF Shown(fb, la, "showGlyphMargins", layerName)
        THEN <<Call("drawMargins", layerName, {})>> ELSE <<>>)
    \o (IF layerName = None /\ Shown(fb, la, "showFontVerticalMetrics", None)
        THEN <<Call("drawVerticalMetrics", layerName,
                    IF /\ Shown(fb, la, "showFontVerticalMetricsTitles", layerName)
                       /\ RLt(RInt(150), ps)
                    THEN {"text"} ELSE {})>>
        ELSE <<>>)
    \o (IF FillDetail(fb, la, layerName) # {}
        THEN <<Call("drawFillAndStroke", layerName, FillDetail(fb, la, layerName))>>
        ELSE <<>>)
    \o (IF \/ Shown(fb, la, "showGlyphOnCurvePoints", layerName)
           \/ Shown(fb, la, "showGlyphOffCurvePoints", layerName)
        THEN <<Call("drawPoints", layerName, PointsDetail(fb, la, ps, layerName))>>
        ELSE <<>>)
    \o (IF Shown(fb, la, "showGlyphAnchors", layerName)
        THEN <<Call("drawAnchors", layerName, IF RLt(RInt(50), ps) THEN {"text"} ELSE {})>>
        ELSE <<>>)

RECURSIVE AllLayerCalls(_, _, _, _, _)
AllLayerCalls(fb, la, ps, layers, i) ==
    IF i > Len(layers) THEN <<>>
    ELSE LayerCalls(fb, la, ps, layers[i]) \o AllLayerCalls(fb, la, ps, layers, i + 1)

\* the calls up to and with the first one that raises
RECURSIVE UntilRaised(_, _)
UntilRaised(calls, i) ==
    IF i > Len(calls) THEN <<>>
    ELSE IF calls[i].raised THEN <<calls[i]>>
    ELSE <<calls[i]>> \o UntilRaised(calls, i + 1)

\* the hooks around the layers
Hook(name) == [op |-> name, layer |-> None, detail |-> {}, raised |-> FALSE]

\* drawGlyph(painter, glyph, rect, selection): the calls it makes, in order,
\* and whether one of them raised
DrawGlyphCalls(attrs, gl) ==
    LET planned == <<Hook("drawGlyphBackground")>>
                   \o AllLayerCalls(attrs.fallback, attrs.layers, attrs.pointSize,
                                    DrawLayers(attrs.showLayers, gl), 1)
                   \o <<Hook("drawGlyphForeground")>>
        made == UntilRaised(planned, 1)
    IN  [calls |-> made, raised |-> made[Len(made)].raised]

\* ------------------------------------------------------------------------
\* GlyphLineWidget: the layout pass of paintEvent
\* ------------------------------------------------------------------------

\* what drawGlyph reads of the widget
DrawAttrs(fb, la, show, ps) ==
    [fallback |-> fb, layers |-> la, showLayers |-> show, pointSize |-> ps]

\* the fields of the widget a layout pass reads (verticalFlip keeps its
\* default, False)
PassParams(scl, inv, u, desc, lh, wrap, w, attrs) ==
    [scale |-> scl, inverseScale |-> inv, upm |-> u, descender |-> desc,
     lineHeight |-> lh, wrapLines |-> wrap, width |-> w, attrs |-> attrs]

\* top of the first line: self._buffer + .5 * lineHeightOffset * scale
FirstTop(scl, u, lh) ==
    RAdd(RInt(Buffer),
         RMul(RMul(Rat(1, 2), RMul(RSub(lh, RInt(1)), RInt(u))), scl))

LineAdvance(scl, u, lh) == RMul(RMul(RInt(u), lh), scl)

\* device y of the painter's origin before the loop: translate(., buffer),
\* scale(scale, scale), translate(0, .5 * lineHeightOffset + ascender)
FirstBaseline(p) ==
    RAdd(RInt(Buffer),
         RMul(p.scale,
              RAdd(RMul(Rat(1, 2), RMul(RSub(p.lineHeight, RInt(1)), RInt(p.upm))),
                   RInt(p.upm + p.descender))))

\* glyphWidth = (w + xA) * scale
GlyphWidthOf(rec, scl) == RMul(RInt(rec.advanceWidth + rec.xAdvance), scl)

\* glyphHeight = height + ((h + yA) * scale)
GlyphHeightOf(rec, scl, u) ==
    RAdd(RMul(RInt(u), scl), RMul(RInt(rec.advanceHeight + rec.yAdvance), scl))

\* self.width() - self._buffer
RightMargin(w) == RInt(w - Buffer)

\* painter.translate(dx, dy) under scale(scale, scale) and scale(1, -1): the
\* device position of the painter's origin afterwards
Translate(origin, scl, dx, dy) ==
    <<RAdd(origin[1], RMul(scl, dx)), RSub(origin[2], RMul(scl, dy))>>

\* the loop of paintLeftToRight: the locals, the rectangle table, the
\* painter's origin and what each record was given, after record i on
RECURSIVE PaintLTR(_, _, _, _)
PaintLTR(recs, p, i, acc) ==
    IF i > Len(recs) THEN acc
    ELSE LET rec == recs[i]
             scl == p.scale
             incomingWidth == RAdd(RAdd(acc.left, RecordExtent(rec, scl)),
                                   RInt(Buffer))
             break == p.wrapLines /\ RLt(RInt(p.width), incomingWidth)
             left == IF break THEN RInt(Buffer) ELSE acc.left
             top0 == IF break
                     THEN RAdd(acc.top, LineAdvance(scl, p.upm, p.lineHeight))
                     ELSE acc.top
             origin0 == IF break
                        THEN Translate(acc.origin, scl,
                                 RMul(RSub(RInt(Buffer), acc.left), p.inverseScale),
                                 RMul(RInt(-p.upm), p.lineHeight))
                        ELSE acc.origin
             top == RSub(top0, RMul(RInt(rec.yPlacement), scl))
             glyphLeft == RAdd(left, RMul(RInt(rec.xPlacement), scl))
             glyphWidth == GlyphWidthOf(rec, scl)
             rect == <<glyphLeft, top, glyphWidth, GlyphHeightOf(rec, scl, p.upm)>>
             draw == DrawGlyphCalls(p.attrs, GlyphLayers(rec.glyph))
             origin == Translate(origin0, scl, RInt(rec.xPlacement),
                                 RInt(rec.yPlacement))
             after ==
                      [left |-> RAdd(left, glyphWidth),
                       top |-> top,
                       lines |-> IF break THEN acc.lines + 1 ELSE acc.lines,
                       rects |-> Put(acc.rects, rect, i - 1),
                       origin |-> Translate(origin, scl,
                                      RInt(rec.advanceWidth + rec.xAdvance
                                           - rec.xPlacement),
                                      RInt(rec.advanceHeight + rec.yAdvance
                                           - rec.yPlacement)),
                       previousXA |-> rec.xAdvance,
                       aborted |-> draw.raised,
                       drawn |-> draw.calls,
                       items |-> Append(acc.items,
                                        [rect |-> rect, origin |-> origin,
                                         broke |-> break,
                                         line |-> IF break THEN acc.lines + 1
                                                  ELSE acc.lines])]
         \* self.drawGlyph(...) raising ends the pass
         IN  IF after.aborted THEN after ELSE PaintLTR(recs, p, i + 1, after)

\* the loop of paintRightToLeft
RECURSIVE PaintRTL(_, _, _, _)
PaintRTL(recs, p, i, acc) ==
    IF i > Len(recs) THEN acc
    ELSE LET rec == recs[i]
             scl == p.scale
             incomingLeft == RSub(RSub(acc.left, RecordExtent(rec, scl)),
                                  RInt(Buffer))
             break == p.wrapLines /\ RLt(incomingLeft, RInt(0))
             left == IF break THEN RightMargin(p.width) ELSE acc.left
             top0 == IF break
                     THEN RAdd(acc.top, LineAdvance(scl, p.upm, p.lineHeight))
                     ELSE acc.top
             origin0 == IF break
                        THEN Translate(acc.origin, scl,
                                 RMul(RSub(RightMargin(p.width), acc.left),
                                      p.inverseScale),
                                 RMul(RInt(-p.upm), p.lineHeight))
                        ELSE acc.origin
             top == RSub(top0, RMul(RInt(rec.yPlacement), scl))
             glyphLeft == RAdd(left, RMul(RInt(rec.xPlacement - rec.advanceWidth
                                               - rec.xAdvance), scl))
             glyphWidth == GlyphWidthOf(rec, scl)
             rect == <<glyphLeft, top, glyphWidth, GlyphHeightOf(rec, scl, p.upm)>>
             draw == DrawGlyphCalls(p.attrs, GlyphLayers(rec.glyph))
             \* if xP: xP += previousXA
             xP == IF rec.xPlacement # 0 THEN rec.xPlacement + acc.previousXA
                   ELSE rec.xPlacement
             origin == Translate(origin0, scl,
                                 RInt(xP - rec.advanceWidth - rec.xAdvance),
                                 RInt(rec.yPlacement))
             after ==
                      [left |-> RSub(left, RMul(RInt(rec.advanceWidth + xP
                                                     + rec.xAdvance), scl)),
                       top |-> top,
                       lines |-> IF break THEN acc.lines + 1 ELSE acc.lines,
                       rects |-> Put(acc.rects, rect, i - 1),
                       origin |-> Translate(origin, scl, RInt(-xP),
                                      RInt(rec.advanceHeight + rec.yAdvance
                                           - rec.yPlacement)),
                       previousXA |-> rec.xAdvance,
                       aborted |-> draw.raised,
                       drawn |-> draw.calls,
                       items |-> Append(acc.items,
                                        [rect |-> rect, origin |-> origin,
                                         broke |-> break,
                                         line |-> IF break THEN acc.lines + 1
                                                  ELSE acc.lines])]
         \* self.drawGlyph(...) raising ends the pass
         IN  IF after.aborted THEN after ELSE PaintRTL(recs, p, i + 1, after)

\* a pass that goes on filling the table of the pass before
KeepRects(old) == old

\* self._glyphRecordsRects = {}
ResetRects(old) == EmptyDict

\* the locals and the painter before the loop, the pen at left
PassStart(p, left, old) ==
    [left |-> left, top |-> FirstTop(p.scale, p.upm, p.lineHeight),
     lines |-> 1, rects |-> ResetRects(old),
     origin |-> <<left, FirstBaseline(p)>>, previousXA |-> 0, items |-> <<>>,
     aborted |-> FALSE, drawn |-> <<>>]

\* paintEvent: the rectangle table it leaves, the number of lines begun,
\* what each record was given, whether a drawGlyph call raised, the calls of
\* the last drawGlyph, and the records and fields it read
LayoutPass(recs, p, rtl, old) ==
    LET acc == IF rtl
               THEN PaintRTL(recs, p, 1, PassStart(p, RightMargin(p.width), old))
               ELSE PaintLTR(recs, p, 1, PassStart(p, RInt(Buffer), old))
    IN  [rects |-> acc.rects, lines |-> acc.lines, items |-> acc.items,
         aborted |-> acc.aborted, drawn |-> acc.drawn,
         from |-> [records |-> recs, params |-> p, rightToLeft |-> rtl]]

\* ------------------------------------------------------------------------
\* GlyphLineView: notifications
\* ------------------------------------------------------------------------

\* the glyphs / fonts a subscription loop handles, each at its first record
FirstOfGlyph(recs, i) == \A j \in 1..(i - 1) : recs[j].glyph # recs[i].glyph

FirstOfFont(recs, i) ==
    /\ FirstOfGlyph(recs, i)
    /\ GlyphFont(recs[i].glyph) # None
    /\ \A j \in 1..(i - 1) :
          FirstOfGlyph(recs, j) => GlyphFont(recs[j].glyph) # GlyphFont(recs[i].glyph)

\* the observer calls one record of the loop makes, in order
RecordEvents(recs, i, what, kern) ==
    (IF FirstOfGlyph(recs, i)
     THEN << <<what, "Glyph.Changed", recs[i].glyph>> >> ELSE <<>>)
    \o (IF FirstOfFont(recs, i)
        THEN << <<what, "Info.Changed", GlyphFont(recs[i].glyph)>> >> ELSE <<>>)
    \o (IF FirstOfFont(recs, i) /\ kern
        THEN << <<what, "Kerning.Changed", GlyphFont(recs[i].glyph)>> >> ELSE <<>>)

RECURSIVE LoopEvents(_, _, _, _)
LoopEvents(recs, i, what, kern) ==
    IF i > Len(recs) THEN <<>>
    ELSE RecordEvents(recs, i, what, kern) \o LoopEvents(recs, i + 1, what, kern)

\* _subscribeToGlyphs(glyphRecords): its addObserver calls
SubscribeToGlyphs(recs, kern) == LoopEvents(recs, 1, "add", kern)

\* _unsubscribeFromGlyphs(): its removeObserver calls
UnsubscribeFromGlyphs(recs, kern) == LoopEvents(recs, 1, "remove", kern)

\* the observer calls of setGlyphRecords with the new set subscribed first
ObserverCallsAddFirst(old, new, kern) ==
    SubscribeToGlyphs(new, kern) \o UnsubscribeFromGlyphs(old, kern)

\* the observer calls of setGlyphRecords, in the order it makes them
ObserverCalls(old, new, kern) ==
    UnsubscribeFromGlyphs(old, kern) \o SubscribeToGlyphs(new, kern)

\* the registry after a sequence of calls, and whether a call was a
\* second addObserver or a removeObserver of something not registered
RECURSIVE Replay(_, _, _)
Replay(calls, i, acc) ==
    IF i > Len(calls) THEN acc
    ELSE LET key == <<calls[i][2], calls[i][3]>>
         IN  IF calls[i][1] = "add"
             THEN Replay(calls, i + 1,
                         [obs |-> acc.obs \cup {key},
                          err |-> acc.err \/ key \in acc.obs])
             ELSE Replay(calls, i + 1,
                         [obs |-> acc.obs \ {key},
                          err |-> acc.err \/ key \notin acc.obs])

CountCalls(calls, what) == Cardinality({i \in 1..Len(calls) : calls[i][1] = what})

RemovesFirst(calls) ==
    \A i, j \in 1..Len(calls) :
        (calls[i][1] = "add" /\ calls[j][1] = "remove") => j < i

\* ------------------------------------------------------------------------
\* GlyphLineView: kerning in glyph records
\* ------------------------------------------------------------------------

\* the loop's test at (1-based) record index: kerning goes into the record before
KernApplies(recs, index) ==
    /\ index > 1
    /\ GlyphFont(recs[index].glyph) # None
    /\ GlyphFont(recs[index - 1].glyph) = GlyphFont(recs[index].glyph)

KernFor(kern, grps, recs, index) ==
    LET font == GlyphFont(recs[index].glyph)
    IN  LookupKerningValue(kern[font], grps[font],
                           GlyphName(recs[index - 1].glyph),
                           GlyphName(recs[index].glyph))

\* _setKerningInGlyphRecords adding the kerning to the xAdvance before it
SetKerningAdding(kern, grps, recs) ==
    [i \in 1..Len(recs) |->
        IF i < Len(recs) /\ KernApplies(recs, i + 1)
        THEN [recs[i] EXCEPT !.xAdvance = @ + KernFor(kern, grps, recs, i + 1)]
        ELSE recs[i]]

\* _setKerningInGlyphRecords writing the kerning into the later record of a pair
SetKerningIntoSecond(kern, grps, recs) ==
    [i \in 1..Len(recs) |->
        IF KernApplies(recs, i)
        THEN [recs[i] EXCEPT !.xAdvance = KernFor(kern, grps, recs, i)]
        ELSE recs[i]]

\* _setKerningInGlyphRecords(glyphRecords): the records afterwards
SetKerningInGlyphRecords(kern, grps, recs) ==
    [i \in 1..Len(recs) |->
        IF i < Len(recs) /\ KernApplies(recs, i + 1)
        THEN [recs[i] EXCEPT !.xAdvance = KernFor(kern, grps, recs, i + 1)]
        ELSE recs[i]]

\* ------------------------------------------------------------------------
\* Construction
\* ------------------------------------------------------------------------

EmptyTable == [k \in {} |-> 0]

\* the widths the widget is given by its window
Widths == {60, 200}

\* self._glyphRecordsRects = {}: no layout pass has run
NotPainted ==
    [rects |-> EmptyDict, lines |-> 0, items |-> <<>>,
     aborted |-> FALSE, drawn |-> <<>>,
     from |-> [records |-> <<>>,
               params |-> PassParams(RInt(1), Rat(1, 10), 1000, -250,
                                     Rat(11, 10), FALSE, 200,
                                     DrawAttrs(LineWidgetDefaults, EmptyDict,
                                               FALSE, RInt(150))),
               rightToLeft |-> FALSE]]

\* GlyphLineWidget.__init__ without its attribute tables; no sizeHint() call
\* and no layout pass yet
LineFieldsBase ==
    /\ glyphRecords = <<>>
    /\ pointSize = RInt(150)
    /\ scale = RInt(1)
    /\ inverseScale = Rat(1, 10)
    /\ upm = 1000
    /\ descender = -250
    /\ lineHeight = Rat(11, 10)
    /\ rightToLeft = FALSE
    /\ showLayers = FALSE
    /\ sizeHint = <<RInt(-1), RInt(-1)>>
    /\ painted = NotPainted
    /\ layerAttrs = EmptyDict
    /\ selected = {}
    /\ trip = <<>>
    /\ drawn = <<>>

\* the widget as constructed: no wrapping, shown 200 wide
LineFieldsInit ==
    /\ LineFieldsBase
    /\ wrapLines = FALSE
    /\ width = 200

WidgetInit ==
    /\ LineFieldsInit
    /\ widgetClass = "GlyphLineWidget"
    /\ fallbackAttrs = LineWidgetDefaults

\* the accordion boxes; a box is known by the order of its construction
Boxes == 1..MaxBoxes

\* AccordionGroup.__init__, no AccordionBox constructed yet
GroupInit ==
    /\ boxes = {}
    /\ checked = [b \in Boxes |-> FALSE]
    /\ accordions = {}
    /\ currentAccordion = {}
    /\ exclusive = TRUE
    /\ shadowed = FALSE

FourSpaces == <<" ", " ", " ", " ">>

\* BaseCodeEditor.__init__
EditorInit ==
    /\ plainText = <<>>
    /\ indent = FourSpaces
    /\ shouldGuessWhitespace = TRUE
    /\ fileText = <<>>

\* OneTwoListModel.__init__ over an empty list
ListModelInit == modelList = <<>>

\* the controls next to the glyph line view, as constructed
NoOtherControls == GroupInit /\ EditorInit /\ ListModelInit

\* the view has subscribed to nothing yet
NoSubscriptions ==
    /\ observers = {}
    /\ subError = FALSE
    /\ subLast = [ordered |-> TRUE, removes |-> 0, adds |-> 0]
    /\ lastOp = Op("init")

\* GlyphLineView.__init__ around its widget
ViewInit == WidgetInit /\ NoSubscriptions /\ NoOtherControls

\* a font with one group on each side and no kerning pair yet
PlainFonts ==
    /\ kerning = [f \in Fonts |-> EmptyTable]
    /\ groups = [f \in Fonts |-> IF f = "F1" THEN GroupList(1, TRUE, 1, TRUE) ELSE <<>>]
    /\ lookup = NoLookup

\* ------------------------------------------------------------------------
\* GlyphLineWidget: handlers
\* ------------------------------------------------------------------------

\* GlyphLineWidget.setGlyphRecords(glyphRecords), with the _calcScale,
\* setShowLayers and adjustSize calls it ends with
WidgetSetGlyphRecords(recs) ==
    LET u == NewUpm(recs, upm)
        c == CalcScale(pointSize, u)
    IN  /\ glyphRecords' = recs
        /\ upm' = u
        /\ descender' = NewDescender(recs, descender)
        /\ scale' = c.scale
        /\ inverseScale' = c.inverseScale
        /\ pointSize' = c.pointSize
        /\ layerAttrs' = ShowLayersAttrs(recs, showLayers)
        /\ sizeHint' = SizeHintOf(recs, c.scale, c.pointSize, lineHeight,
                                  wrapLines, width)
        /\ UNCHANGED <<lineHeight, rightToLeft, wrapLines, width, painted,
                       showLayers, widgetClass, fallbackAttrs>>

SetGlyphRecords(recs) ==
    /\ WidgetSetGlyphRecords(recs)
    /\ lastOp' = Op("setGlyphRecords")
    /\ UNCHANGED <<controlVars, kernVars, subVars, paintVars>>

\* GlyphLineWidget.setPointSize(pointSize)
SetPointSize(p) ==
    LET c == CalcScale(RInt(PyInt(p)), upm)
    IN  /\ scale' = c.scale
        /\ inverseScale' = c.inverseScale
        /\ pointSize' = c.pointSize
        /\ sizeHint' = SizeHintOf(glyphRecords, c.scale, c.pointSize, lineHeight,
                                  wrapLines, width)
        /\ lastOp' = [Op("setPointSize") EXCEPT !.value = p]
        /\ UNCHANGED <<controlVars, kernVars, subVars, paintVars, glyphRecords, upm, descender,
                       lineHeight, rightToLeft, wrapLines, width, painted, attrVars>>

\* GlyphLineWidget.setLineHeight(scale)
SetLineHeight(lh) ==
    /\ lineHeight' = lh
    /\ sizeHint' = SizeHintOf(glyphRecords, scale, pointSize, lh, wrapLines, width)
    /\ lastOp' = Op("setLineHeight")
    /\ UNCHANGED <<controlVars, kernVars, subVars, paintVars, glyphRecords, scaleVars, rightToLeft,
                   wrapLines, width, painted, attrVars>>

\* GlyphLineWidget.setWrapLines(value)
SetWrapLines(value) ==
    /\ wrapLines' = value
    /\ sizeHint' = SizeHintOf(glyphRecords, scale, pointSize, lineHeight, value, width)
    /\ lastOp' = Op("setWrapLines")
    /\ UNCHANGED <<controlVars, kernVars, subVars, paintVars, glyphRecords, scaleVars, lineHeight,
                   rightToLeft, width, painted, attrVars>>

\* GlyphLineWidget.setRightToLeft(value)
SetRightToLeft(value) ==
    /\ rightToLeft' = value
    /\ sizeHint' = SizeHintOf(glyphRecords, scale, pointSize, lineHeight,
                              wrapLines, width)
    /\ lastOp' = Op("setRightToLeft")
    /\ UNCHANGED <<controlVars, kernVars, subVars, paintVars, glyphRecords, scaleVars, lineHeight,
                   wrapLines, width, painted, attrVars>>

\* the window resizes the widget
Resize(w) ==
    /\ w # width
    /\ width' = w
    /\ lastOp' = Op("resize")
    /\ UNCHANGED <<controlVars, kernVars, subVars, paintVars, glyphRecords, scaleVars, lineHeight,
                   rightToLeft, wrapLines, sizeHint, painted, attrVars>>

\* the fields a layout pass starting now reads
CurrentParams ==
    PassParams(scale, inverseScale, upm, descender, lineHeight, wrapLines, width,
               DrawAttrs(fallbackAttrs, layerAttrs, showLayers, pointSize))

\* GlyphLineWidget.paintEvent(event): the layout pass of the direction set
PaintPass ==
    /\ painted' = LayoutPass(glyphRecords, CurrentParams, rightToLeft, painted.rects)
    /\ drawn' = IF glyphRecords = <<>> THEN drawn ELSE painted'.drawn
    /\ lastOp' = Op("paintEvent")
    /\ UNCHANGED <<controlVars, kernVars, subVars, glyphRecords, scaleVars, lineHeight,
                   rightToLeft, wrapLines, width, sizeHint, attrVars>>

\* GlyphLineWidget.paintEvent(event)
PaintEvent == PaintPass /\ UNCHANGED <<selected, trip>>

\* ------------------------------------------------------------------------
\* GlyphLineView: handlers
\* ------------------------------------------------------------------------

\* what setGlyphRecords is handed: a list of glyphs or a list of records
GlyphsInput(items) == [kind |-> "glyphs", items |-> items]
RecordsInput(items) == [kind |-> "records", items |-> items]

\* the hasattr test on glyphs[0]: a Glyph has none of the record attributes
NeedToWrap(input) == input.items # <<>> /\ input.kind = "glyphs"

WrapGlyphs(glyphs) ==
    [i \in 1..Len(glyphs) |->
        [GlyphRecord(glyphs[i]) EXCEPT !.advanceWidth = GlyphWidth(glyphs[i])]]

\* the records setGlyphRecords puts into the widget
RecordsFor(input, kern) ==
    IF NeedToWrap(input)
    THEN IF kern
         THEN SetKerningInGlyphRecords(kerning, groups, WrapGlyphs(input.items))
         ELSE WrapGlyphs(input.items)
    ELSE input.items

\* GlyphLineView.setGlyphRecords(glyphs)
ViewSetGlyphRecords(input) ==
    LET recs == RecordsFor(input, applyKerning)
        calls == ObserverCalls(glyphRecords, recs, applyKerning)
        reg == Replay(calls, 1, [obs |-> observers, err |-> subError])
    IN  /\ WidgetSetGlyphRecords(recs)
        /\ observers' = reg.obs
        /\ subError' = reg.err
        /\ subLast' = [ordered |-> RemovesFirst(calls),
                       removes |-> CountCalls(calls, "remove"),
                       adds |-> CountCalls(calls, "add")]
        /\ lastOp' = [Op("viewSetGlyphRecords") EXCEPT !.value = input.kind]
        /\ UNCHANGED <<controlVars, kernVars, applyKerning, paintVars>>

\* the classes that define _unsubscribeFromGlyphs
DefinesUnsubscribe == {"GlyphLineView"}

\* GlyphLineWidget.closeEvent(event) on the view's line widget: QWidget's
\* closeEvent accepts the event, and self._unsubscribeFromGlyphs() is looked
\* up on the line widget, raising AttributeError where it is not defined
CloseEvent ==
    LET found == widgetClass \in DefinesUnsubscribe
        reg == Replay(UnsubscribeFromGlyphs(glyphRecords, applyKerning), 1,
                      [obs |-> observers, err |-> subError])
    IN  /\ observers' = IF found THEN reg.obs ELSE observers
        /\ subError' = IF found THEN reg.err ELSE subError
        /\ lastOp' = [Op("closeEvent") EXCEPT
                         !.result = IF found THEN None ELSE "AttributeError"]
        /\ UNCHANGED <<controlVars, kernVars, applyKerning, subLast, paintVars, glyphRecords,
                       scaleVars, layoutVars, attrVars>>

\* a kerning pair of a font is set or deleted; font.kerning posts
\* Kerning.Changed, which runs GlyphLineView._kerningChanged when the view
\* observes that font's kerning
KerningEdit(font, key, present) ==
    LET table == IF present THEN Put(kerning[font], key, KernValueOf(key))
                 ELSE [k \in DOMAIN kerning[font] \ {key} |-> kerning[font][k]]
        kern == [kerning EXCEPT ![font] = table]
        observed == <<"Kerning.Changed", font>> \in observers
    IN  /\ table # kerning[font]
        /\ kerning' = kern
        /\ glyphRecords' = IF observed
                           THEN SetKerningInGlyphRecords(kern, groups, glyphRecords)
                           ELSE glyphRecords
        /\ lastOp' = Op(IF observed THEN "kerningChanged" ELSE "kerningEdit")
        /\ UNCHANGED <<controlVars, groups, lookup, subVars, paintVars, scaleVars, layoutVars, attrVars>>

\* ------------------------------------------------------------------------
\* The view with its fonts
\* ------------------------------------------------------------------------

\* records that come with an advance from a shaping engine
ShapedRecords ==
    {[GlyphRecord("A") EXCEPT !.advanceWidth = 500, !.xAdvance = 30],
     [GlyphRecord("B") EXCEPT !.advanceWidth = 500],
     [GlyphRecord("D") EXCEPT !.advanceWidth = 400]}


\* the pairs the model's font edits touch
EditedKeys ==
    {<<GlyphName("A"), GlyphName("B")>>, <<Kern1Group(1), GlyphName("B")>>}

Init == ViewInit /\ PlainFonts /\ applyKerning \in BOOLEAN

Next ==
    \/ \E glyphs \in SeqsUpTo(Glyphs, MaxGlyphs) :
          ViewSetGlyphRecords(GlyphsInput(glyphs))
    \/ \E recs \in SeqsUpTo(ShapedRecords, MaxGlyphs) :
          ViewSetGlyphRecords(RecordsInput(recs))
    \/ \E key \in EditedKeys, present \in BOOLEAN : KerningEdit("F1", key, present)
    \/ CloseEvent

Spec == Init /\ [][Next]_vars

\* ------------------------------------------------------------------------
\* C1: the kerning lookup on its own
\* ------------------------------------------------------------------------

InitLookup ==
    /\ ViewInit
    /\ kerning \in {[f \in Fonts |-> IF f = "F1" THEN t ELSE EmptyTable] : t \in KernTables}
    /\ groups \in {[f \in Fonts |-> IF f = "F1" THEN g ELSE <<>>] : g \in GroupChoices}
    /\ lookup = NoLookup
    /\ applyKerning = TRUE

\* GlyphLineView._lookupKerningValue(first, second) on glyphs of one font
Lookup(font, first, second) ==
    /\ lookup' = [first |-> first, second |-> second, done |-> TRUE,
                  result |-> LookupKerningValue(kerning[font], groups[font], first, second)]
    /\ lastOp' = Op("lookupKerningValue")
    /\ UNCHANGED <<controlVars, kerning, groups, subVars, paintVars, glyphRecords, scaleVars, layoutVars, attrVars>>

NextLookup ==
    \E first \in LookupFirsts, second \in LookupSeconds : Lookup("F1", first, second)

SpecLookup == InitLookup /\ [][NextLookup]_vars

\* the groups of one side that a name stands for: itself when it is a group
\* of that side, otherwise the groups of that side listing it
GroupsFor(grps, name, marker) ==
    IF StartsWith(name, marker) THEN {name}
    ELSE {grps[i].name : i \in {j \in 1..Len(grps) :
                                    StartsWith(grps[j].name, marker)
                                    /\ name \in grps[j].members}}

OrNoName(S) == IF S = {} THEN {NoName} ELSE S

AnyPresent(kern, keys) == \E i \in 1..Len(keys) : keys[i] \in DOMAIN kern

FirstPresent(kern, keys) ==
    LET hits == {i \in 1..Len(keys) : keys[i] \in DOMAIN kern}
    IN  kern[keys[Min(hits)]]

\* C1: the lookup returns the value of the first key present among
\* (glyph, glyph), (glyph, group), (group, glyph), (group, group), where the
\* groups are a public.kern1 group of the first name and a public.kern2
\* group of the second, and 0 when none of the four is present.
C1_KerningPrecedence ==
    lookup.done =>
        \E fg \in OrNoName(GroupsFor(groups["F1"], lookup.first, Kern1Marker)),
           sg \in OrNoName(GroupsFor(groups["F1"], lookup.second, Kern2Marker)) :
            LET keys == << <<lookup.first, lookup.second>>,
                           <<lookup.first, sg>>,
                           <<fg, lookup.second>>,
                           <<fg, sg>> >>
            IN  lookup.result = IF AnyPresent(kerning["F1"], keys)
                                THEN FirstPresent(kerning["F1"], keys)
                                ELSE 0

\* (A, B) is absent, (A, group of B) and (group of A, B) are both present:
\* the glyph-group pair wins
C1_Witness ==
    /\ lookup.done
    /\ lookup.first = GlyphName("A")
    /\ lookup.second = GlyphName("B")
    /\ <<GlyphName("A"), GlyphName("B")>> \notin DOMAIN kerning["F1"]
    /\ <<GlyphName("A"), Kern2Group(1)>> \in DOMAIN kerning["F1"]
    /\ <<Kern1Group(1), GlyphName("B")>> \in DOMAIN kerning["F1"]
    /\ Len(groups["F1"]) >= 2
    /\ lookup.result = KernValueOf(<<GlyphName("A"), Kern2Group(1)>>)

\* ------------------------------------------------------------------------
\* C2: subscriptions follow the records
\* ------------------------------------------------------------------------

RecordGlyphs(recs) == {recs[i].glyph : i \in 1..Len(recs)}

Observed(notification) == {o[2] : o \in {x \in observers : x[1] = notification}}

\* C2: the view observes Glyph.Changed of exactly the distinct glyphs of its
\* records and Info.Changed of exactly their distinct non-null fonts (and,
\* with applyKerning, Kerning.Changed of those fonts); the last replacement
\* removed every old observer before it added a new one, and no addObserver
\* ever met a registered pair nor a removeObserver an unregistered one.
C2_SubscriptionsFollowRecords ==
    /\ Observed("Glyph.Changed") = RecordGlyphs(glyphRecords)
    /\ Observed("Info.Changed") = {GlyphFont(g) : g \in RecordGlyphs(glyphRecords)} \ {None}
    /\ Cardinality(observers) =
          Cardinality(RecordGlyphs(glyphRecords))
          + (IF applyKerning THEN 2 ELSE 1)
            * Cardinality({GlyphFont(g) : g \in RecordGlyphs(glyphRecords)} \ {None})
    /\ subLast.ordered
    /\ ~subError

\* two records of two glyphs of one font replaced a set that had observers
C2_Witness ==
    /\ lastOp.op = "viewSetGlyphRecords"
    /\ Len(glyphRecords) = 2
    /\ RecordGlyphs(glyphRecords) = {"A", "B"}
    /\ subLast.removes >= 2
    /\ subLast.adds = IF applyKerning THEN 4 ELSE 3
    /\ Cardinality(Observed("Glyph.Changed")) = 2
    /\ Cardinality(Observed("Info.Changed")) = 1

\* ------------------------------------------------------------------------
\* C6, C7: kerning written into the records
\* ------------------------------------------------------------------------

SameFont(recs, i, j) ==
    /\ GlyphFont(recs[i].glyph) # None
    /\ GlyphFont(recs[i].glyph) = GlyphFont(recs[j].glyph)

\* the table of the pair's font holds no key for the pair at any level
NoKeyFor(kern, grps, recs, i, j) ==
    LET t == kern[GlyphFont(recs[j].glyph)]
        g == grps[GlyphFont(recs[j].glyph)]
        first == GlyphName(recs[i].glyph)
        second == GlyphName(recs[j].glyph)
    IN  \A fg \in GroupsFor(g, first, Kern1Marker) \cup {first},
           sg \in GroupsFor(g, second, Kern2Marker) \cup {second} :
            <<fg, sg>> \notin DOMAIN t

\* this step applied kerning to the records it leaves in the widget
KerningStep ==
    \/ lastOp'.op = "kerningChanged"
    \/ lastOp'.op = "viewSetGlyphRecords" /\ lastOp'.value = "glyphs" /\ applyKerning

\* the record the kerning step started from at position i
RecordBefore(i) ==
    IF lastOp'.op = "kerningChanged" THEN glyphRecords[i]
    ELSE [GlyphRecord(glyphRecords'[i].glyph)
              EXCEPT !.advanceWidth = GlyphWidth(glyphRecords'[i].glyph)]

\* C6 as stated: where no key exists at any level for an adjacent same-font
\* pair, applying kerning leaves the xAdvance of the record before at the
\* value it had.
C6_NoKeyKeepsAdvance ==
    [][KerningStep =>
          \A i \in 1..(Len(glyphRecords') - 1) :
              (SameFont(glyphRecords', i, i + 1)
               /\ NoKeyFor(kerning', groups', glyphRecords', i, i + 1)) =>
                  glyphRecords'[i].xAdvance = RecordBefore(i).xAdvance]_vars

\* C6 amended: where no key exists at any level for an adjacent same-font
\* pair, the lookup returns 0 and applying kerning sets the xAdvance of the
\* record before to 0, whatever it held.
C6_NoKeyZeroAdvance ==
    [][KerningStep =>
          \A i \in 1..(Len(glyphRecords') - 1) :
              (SameFont(glyphRecords', i, i + 1)
               /\ NoKeyFor(kerning', groups', glyphRecords', i, i + 1)) =>
                  /\ KernFor(kerning', groups', glyphRecords', i + 1) = 0
                  /\ glyphRecords'[i].xAdvance = 0]_vars

\* a Kerning.Changed notification met records A, B and a table without pairs
C6_Witness ==
    /\ lastOp.op = "kerningChanged"
    /\ Len(glyphRecords) = 2
    /\ glyphRecords[1].glyph = "A"
    /\ glyphRecords[2].glyph = "B"
    /\ kerning["F1"] = EmptyTable
    /\ glyphRecords[1].xAdvance = 0

\* C7: a kerning step changes nothing but the xAdvance of records that are
\* followed by a record of the same non-null font: the other fields, the
\* xAdvance of every other record (the last one among them), the order and
\* the length of the sequence stay.
C7_KerningFrame ==
    [][KerningStep =>
          /\ lastOp'.op = "kerningChanged" => Len(glyphRecords') = Len(glyphRecords)
          /\ \A i \in 1..Len(glyphRecords') :
                /\ [glyphRecords'[i] EXCEPT !.xAdvance = RecordBefore(i).xAdvance]
                       = RecordBefore(i)
                /\ glyphRecords'[i].xAdvance # RecordBefore(i).xAdvance =>
                       (i < Len(glyphRecords') /\ SameFont(glyphRecords', i, i + 1))]_vars

\* Kerning.Changed on shaped records A, A: the first takes the (absent)
\* kerning, the last keeps the advance it came with
C7_Witness ==
    /\ lastOp.op = "kerningChanged"
    /\ Len(glyphRecords) = 2
    /\ glyphRecords[1].glyph = "A"
    /\ glyphRecords[2].glyph = "A"
    /\ glyphRecords[1].xAdvance = 0
    /\ glyphRecords[2].xAdvance = 30

\* ------------------------------------------------------------------------
\* Drawing attributes of the two widgets and their scroll-area views
\* ------------------------------------------------------------------------

\* the attribute names, values and layer arguments the callers pass
AttrInputs == {"showGlyphFill", "showGlyphStroke"}
ViewAttrInputs == {"showGlyphStroke"}
ValueInputs == {"True", "False"}
LayerInputs == LayerNames \cup {None}

\* GlyphLineWidget.__init__ or GlyphWidget.__init__: the same attribute code
\* over different defaults
InitAttrs ==
    /\ LineFieldsInit
    /\ NoSubscriptions /\ NoOtherControls
    /\ PlainFonts
    /\ applyKerning = FALSE
    /\ widgetClass \in {"GlyphLineWidget", "GlyphWidget"}
    /\ fallbackAttrs = IF widgetClass = "GlyphWidget" THEN GlyphWidgetDefaults
                       ELSE LineWidgetDefaults

\* widget.setDrawingAttribute(attr, value, layerName)
WidgetSetDrawingAttribute(attr, value, layerName) ==
    LET t == SetDrawingAttribute(fallbackAttrs, layerAttrs, attr, value, layerName)
    IN  /\ fallbackAttrs' = t.fallback
        /\ layerAttrs' = t.layers
        /\ lastOp' = [Op("widgetSetDrawingAttribute") EXCEPT
                          !.attr = attr, !.value = value, !.layer = layerName]
        /\ UNCHANGED <<controlVars, kernVars, subVars, paintVars, glyphRecords, scaleVars, layoutVars,
                       widgetClass, showLayers>>

\* GlyphLineView.setDrawingAttribute(attr, value, layerName=None) hands the
\* widget (attr, layerName, value); GlyphView.setDrawingAttribute hands its
\* widget (attr, value, layerName)
ViewSetDrawingAttribute(attr, value, layerName) ==
    LET t == IF widgetClass = "GlyphLineWidget"
             THEN SetDrawingAttribute(fallbackAttrs, layerAttrs, attr, layerName, value)
             ELSE SetDrawingAttribute(fallbackAttrs, layerAttrs, attr, value, layerName)
    IN  /\ fallbackAttrs' = t.fallback
        /\ layerAttrs' = t.layers
        /\ lastOp' = [Op("viewSetDrawingAttribute") EXCEPT
                          !.attr = attr, !.value = value, !.layer = layerName]
        /\ UNCHANGED <<controlVars, kernVars, subVars, paintVars, glyphRecords, scaleVars, layoutVars,
                       widgetClass, showLayers>>

\* drawingAttribute(attr, layerName), on the widget or through its view
QueryDrawingAttribute(attr, layerName) ==
    /\ lastOp' = [Op("drawingAttribute") EXCEPT
                      !.attr = attr, !.layer = layerName,
                      !.result = DrawingAttribute(fallbackAttrs, layerAttrs,
                                                  attr, layerName)]
    /\ UNCHANGED <<controlVars, kernVars, subVars, paintVars, glyphRecords, scaleVars, layoutVars, attrVars>>

\* GlyphLineWidget.setShowLayers(value)
SetShowLayers(value) ==
    /\ widgetClass = "GlyphLineWidget"
    /\ showLayers' = value
    /\ layerAttrs' = ShowLayersAttrs(glyphRecords, value)
    /\ lastOp' = Op("setShowLayers")
    /\ UNCHANGED <<controlVars, kernVars, subVars, paintVars, glyphRecords, scaleVars, layoutVars,
                   widgetClass, fallbackAttrs>>

\* the line widget is given one record of a glyph with layers
SetLayeredRecords ==
    /\ widgetClass = "GlyphLineWidget"
    /\ SetGlyphRecords(<<[GlyphRecord("A") EXCEPT !.advanceWidth = 500]>>)

NextAttrs ==
    \/ \E attr \in AttrInputs, value \in ValueInputs, layerName \in LayerInputs :
          WidgetSetDrawingAttribute(attr, value, layerName)
    \/ \E attr \in ViewAttrInputs, value \in ValueInputs, layerName \in LayerInputs :
          ViewSetDrawingAttribute(attr, value, layerName)
    \/ \E attr \in AttrInputs, layerName \in LayerInputs :
          QueryDrawingAttribute(attr, layerName)
    \/ \E value \in BOOLEAN : SetShowLayers(value)
    \/ SetLayeredRecords

SpecAttrs == InitAttrs /\ [][NextAttrs]_vars

\* the layer's own table holds no value for the attribute
Unset(la, attr, layerName) ==
    layerName \notin DOMAIN la \/ attr \notin DOMAIN la[layerName]

\* C3 as stated: drawingAttribute(attr, layerName) for a layer without a
\* value for attr returns what drawingAttribute(attr, None) returns.
C3_LayerFallsThrough ==
    (/\ lastOp.op = "drawingAttribute"
     /\ lastOp.layer # None
     /\ Unset(layerAttrs, lastOp.attr, lastOp.layer)) =>
        lastOp.result = fallbackAttrs[lastOp.attr]

\* C3 amended: drawingAttribute(attr, layerName) for a layer without a value
\* for attr returns None in both widgets, whatever the fallback holds; only
\* drawingAttribute(attr, None) returns the fallback's value.
C3_LayerUnsetIsNone ==
    lastOp.op = "drawingAttribute" =>
        /\ (lastOp.layer # None /\ Unset(layerAttrs, lastOp.attr, lastOp.layer)) =>
               (lastOp.result = None /\ fallbackAttrs[lastOp.attr] # None)
        /\ lastOp.layer = None => lastOp.result = fallbackAttrs[lastOp.attr]

\* the layer has a value for the fill only; its stroke is asked for while
\* the fallback's stroke is set
C3_Witness ==
    /\ lastOp.op = "drawingAttribute"
    /\ lastOp.attr = "showGlyphStroke"
    /\ lastOp.layer = LayerName(1)
    /\ LayerName(1) \in DOMAIN layerAttrs
    /\ DOMAIN layerAttrs[LayerName(1)] = {"showGlyphFill"}
    /\ fallbackAttrs["showGlyphStroke"] = "True"
    /\ lastOp.result = None

\* C4: setDrawingAttribute(attr, value, layerName) on a widget with a layer
\* name leaves drawingAttribute(a, None) as it was for every attribute a.
C4_LayerSetKeepsFallback ==
    [][(lastOp'.op = "widgetSetDrawingAttribute" /\ lastOp'.layer # None) =>
          /\ DOMAIN fallbackAttrs' = DOMAIN fallbackAttrs
          /\ \A a \in DOMAIN fallbackAttrs \cup AttrInputs :
                DrawingAttribute(fallbackAttrs', layerAttrs', a, None)
                    = DrawingAttribute(fallbackAttrs, layerAttrs, a, None)]_vars

\* a layer was given a value that differs from the fallback's
C4_Witness ==
    /\ lastOp.op = "widgetSetDrawingAttribute"
    /\ lastOp.layer = LayerName(1)
    /\ layerAttrs[lastOp.layer][lastOp.attr] = lastOp.value
    /\ fallbackAttrs[lastOp.attr] # lastOp.value

\* C5: right after GlyphLineView.setDrawingAttribute(attr, value, layerName)
\* the view's drawingAttribute(attr, layerName) returns value.
C5_ViewSetThenGet ==
    (lastOp.op = "viewSetDrawingAttribute" /\ widgetClass = "GlyphLineWidget") =>
        DrawingAttribute(fallbackAttrs, layerAttrs, lastOp.attr, lastOp.layer)
            = lastOp.value

\* ------------------------------------------------------------------------
\* The line widget on its own: sizes
\* ------------------------------------------------------------------------

\* records as a shaping engine hands them over
LayoutRecords ==
    {[GlyphRecord("A") EXCEPT !.advanceWidth = 500],
     [GlyphRecord("C") EXCEPT !.advanceWidth = 600, !.xPlacement = 100,
                              !.xAdvance = -50],
     [GlyphRecord("D") EXCEPT !.advanceWidth = 400]}

\* point sizes asked for, 10.5 among them
PointSizes == {RInt(5), RInt(10), Rat(21, 2), RInt(150)}

LineHeights == {RInt(1), Rat(11, 10)}

InitLayout == ViewInit /\ PlainFonts /\ applyKerning = FALSE

NextLayout ==
    \/ \E recs \in SeqsUpTo(LayoutRecords, MaxRecords) : SetGlyphRecords(recs)
    \/ \E p \in PointSizes : SetPointSize(p)
    \/ \E lh \in LineHeights : SetLineHeight(lh)
    \/ \E v \in BOOLEAN : SetWrapLines(v)

SpecLayout == InitLayout /\ [][NextLayout]_vars

\* ------------------------------------------------------------------------
\* C8: the scale is clamped to 0.01
\* ------------------------------------------------------------------------

\* p / u, and 0.01 in its place when p / u <= 0.01
ClampedScale(p, u) ==
    IF RLe(RDiv(p, RInt(u)), Rat(1, 100)) THEN Rat(1, 100) ELSE RDiv(p, RInt(u))

\* C8 as stated: after setPointSize(p) the scale is 0.01 when p/u <= 0.01
\* and p/u otherwise, for every point size p handed in.
C8_ScaleIsClampedRatio ==
    [][lastOp'.op = "setPointSize" =>
          scale' = ClampedScale(lastOp'.value, upm')]_vars

\* C8 amended: with p the point size setPointSize stores, int(pointSize),
\* and for setGlyphRecords the point size the widget holds, and u the
\* unitsPerEm in force after the call, the scale is 0.01 when p/u <= 0.01
\* and p/u otherwise; the scale is never below 0.01.
C8_ScaleClamp ==
    /\ RLe(Rat(1, 100), scale)
    /\ [][/\ lastOp'.op = "setPointSize" =>
               scale' = ClampedScale(RInt(PyInt(lastOp'.value)), upm')
          /\ lastOp'.op = "setGlyphRecords" =>
               scale' = ClampedScale(pointSize, upm')
          /\ RLe(Rat(1, 100), scale')]_vars

\* a point size of 10.5 in an em of 2000 was asked for: 10 is stored, 10/2000
\* is clamped to 0.01 and the point size becomes 20
C8_Witness ==
    /\ lastOp.op = "setPointSize"
    /\ lastOp.value = Rat(21, 2)
    /\ upm = 2000
    /\ scale = Rat(1, 100)
    /\ pointSize = RInt(20)

\* ------------------------------------------------------------------------
\* C9: the size hint without wrapping
\* ------------------------------------------------------------------------

RECURSIVE SumExtents(_, _)
SumExtents(recs, scl) ==
    IF recs = <<>> THEN RInt(0)
    ELSE RAdd(RMul(RInt(Head(recs).advanceWidth + Head(recs).xPlacement
                        + Head(recs).xAdvance), scl),
              SumExtents(Tail(recs), scl))

HintOps == {"setGlyphRecords", "setPointSize", "setLineHeight", "setWrapLines",
            "setRightToLeft"}

PaintRecords ==
    {[GlyphRecord("A") EXCEPT !.advanceWidth = 500],
     [GlyphRecord("B") EXCEPT !.advanceWidth = 500, !.xPlacement = 100]}

\* the fallback table as constructed, or after
\* setDrawingAttribute("showGlyphFill", False, None)
FillChoices ==
    {LineWidgetDefaults, [LineWidgetDefaults EXCEPT !["showGlyphFill"] = "False"]}

InitPaint ==
    /\ LineFieldsInit
    /\ widgetClass = "GlyphLineWidget"
    /\ fallbackAttrs \in FillChoices
    /\ NoSubscriptions /\ NoOtherControls /\ PlainFonts /\ applyKerning = FALSE

NextPaint ==
    \/ \E recs \in SeqsUpTo(PaintRecords, MaxLine) : SetGlyphRecords(recs)
    \/ \E v \in BOOLEAN : SetWrapLines(v)
    \/ \E v \in BOOLEAN : SetRightToLeft(v)
    \/ \E w \in Widths : Resize(w)
    \/ PaintEvent

SpecPaint == InitPaint /\ [][NextPaint]_vars

\* ------------------------------------------------------------------------
\* C10: the size hint with wrapping
\* ------------------------------------------------------------------------

\* C10: with wrapping enabled, sizeHint called on the state a layout pass
\* just laid out to its end returns height = 2*buffer + lines * pointSize *
\* lineHeight for the number of lines the pass used.
C10_HintLinesMatchLayout ==
    (lastOp.op = "paintEvent" /\ wrapLines /\ ~painted.aborted) =>
        SizeHintOf(glyphRecords, scale, pointSize, lineHeight, wrapLines, width)[2]
            = RAdd(RInt(2 * Buffer),
                   RMul(RMul(RInt(painted.lines), pointSize), lineHeight))

\* ------------------------------------------------------------------------
\* The line widget on its own: the rectangles of a layout pass
\* ------------------------------------------------------------------------

\* a plain record, a placed one, one with an advance adjustment and a raised
\* baseline, and a zero-advance mark
RectRecords ==
    {[GlyphRecord("A") EXCEPT !.advanceWidth = 500],
     [GlyphRecord("B") EXCEPT !.advanceWidth = 500, !.xPlacement = 100],
     [GlyphRecord("A") EXCEPT !.advanceWidth = 500, !.xAdvance = -50,
                              !.yPlacement = 50],
     [GlyphRecord("B") EXCEPT !.advanceWidth = 0]}

\* the widget shown at one of the widths, wrapping or not, filling the glyphs
\* or not
InitRects ==
    /\ LineFieldsBase
    /\ widgetClass = "GlyphLineWidget"
    /\ fallbackAttrs \in FillChoices
    /\ NoSubscriptions /\ NoOtherControls /\ PlainFonts /\ applyKerning = FALSE
    /\ width \in Widths
    /\ wrapLines \in BOOLEAN

NextRects ==
    \/ \E recs \in SeqsUpTo(RectRecords, MaxLine) : SetGlyphRecords(recs)
    \/ \E v \in BOOLEAN : SetRightToLeft(v)
    \/ PaintEvent

SpecRects == InitRects /\ [][NextRects]_vars

\* ------------------------------------------------------------------------
\* C11: wrapping never splits a record
\* ------------------------------------------------------------------------

\* the pen position a line starts at
LineStart(p, rtl) == IF rtl THEN RightMargin(p.width) ELSE RInt(Buffer)

\* where the rectangle of rec starts when the pen is at left
RectLeftAt(left, rec, scl, rtl) ==
    IF rtl
    THEN RAdd(left, RMul(RInt(rec.xPlacement - rec.advanceWidth - rec.xAdvance),
                         scl))
    ELSE RAdd(left, RMul(RInt(rec.xPlacement), scl))

\* C11: with wrapping enabled, for every viewport width, a layout pass gives
\* each record exactly one rectangle of width (advanceWidth + xAdvance)*scale
\* and of one line's height; consecutive records are on the same line or on
\* consecutive lines, and a record that begins a line has its line offset
\* advanced by unitsPerEm*lineHeight*scale and the pen at the buffer margin
\* (viewport width minus buffer for RTL).
C11_WrapKeepsRecordsWhole ==
    LET its == painted.items
        p == painted.from.params
        recs == painted.from.records
        rtl == painted.from.rightToLeft
        prevTop(i) == IF i = 1 THEN FirstTop(p.scale, p.upm, p.lineHeight)
                      ELSE its[i - 1].rect[2]
        prevLine(i) == IF i = 1 THEN 1 ELSE its[i - 1].line
        ownShift(i) == RMul(RInt(recs[i].yPlacement), p.scale)
    IN  p.wrapLines =>
            /\ Len(its) = Len(recs)
            /\ \A i \in 1..Len(recs) :
                /\ its[i].rect[3]
                       = RMul(RInt(recs[i].advanceWidth + recs[i].xAdvance), p.scale)
                /\ its[i].rect[4]
                       = RMul(RInt(p.upm + recs[i].advanceHeight + recs[i].yAdvance),
                              p.scale)
                /\ its[i].line - prevLine(i) = (IF its[i].broke THEN 1 ELSE 0)
                /\ RAdd(its[i].rect[2], ownShift(i))
                       = (IF its[i].broke
                          THEN RAdd(prevTop(i), RMul(RMul(RInt(p.upm), p.lineHeight),
                                                     p.scale))
                          ELSE prevTop(i))
                /\ its[i].broke =>
                       its[i].rect[1]
                           = RectLeftAt(LineStart(p, rtl), recs[i], p.scale, rtl)

\* ------------------------------------------------------------------------
\* C12: what a record's placement moves
\* ------------------------------------------------------------------------

\* recs with the placement of record i taken away
Unplaced(recs, i) == [recs EXCEPT ![i].xPlacement = 0, ![i].yPlacement = 0]

\* C12: on a single line laid out to its end, in LTR and in RTL layout, the
\* placement of record i moves only record i: laid out without it, every
\* other record has the same rectangle and the same drawing origin.
C12_PlacementIsLocal ==
    LET recs == painted.from.records
        p == painted.from.params
        rtl == painted.from.rightToLeft
    IN  (~p.wrapLines /\ ~painted.aborted) =>
            \A i \in 1..Len(recs) :
                LET other == LayoutPass(Unplaced(recs, i), p, rtl, EmptyDict).items
                IN  \A j \in (1..Len(recs)) \ {i} :
                        /\ other[j].rect = painted.items[j].rect
                        /\ other[j].origin = painted.items[j].origin

\* ------------------------------------------------------------------------
\* C13: the stored rectangle and the place the glyph is painted at
\* ------------------------------------------------------------------------

\* C13: for every record of a layout pass, in LTR and RTL layout and with or
\* without wrapping, the left edge of the rectangle stored for hit-testing is
\* the horizontal device position of the painter's origin when the record's
\* glyph is drawn.
C13_RectLeftIsPaintOrigin ==
    \A i \in 1..Len(painted.items) :
        painted.items[i].rect[1] = painted.items[i].origin[1]

\* ------------------------------------------------------------------------
\* The line widget on its own: toggling the direction
\* ------------------------------------------------------------------------

\* the two passes read the same records and fields
SameInputs(a, b) ==
    a.from.records = b.from.records /\ a.from.params = b.from.params

\* the history after the pass new: an LTR pass, then an RTL pass and then an
\* LTR pass again, all over the same records and fields
TripAfter(t, new) ==
    IF new.from.rightToLeft
    THEN IF Len(t) \in {1, 2} /\ SameInputs(t[1], new) THEN <<t[1], new>>
         ELSE IF Len(t) = 3 /\ SameInputs(t[3], new) THEN <<t[3], new>>
         ELSE <<>>
    ELSE IF Len(t) = 2 /\ SameInputs(t[1], new) THEN <<t[1], t[2], new>>
         ELSE <<new>>

\* paintEvent, with the history of the passes kept
TrackedPaintEvent ==
    /\ PaintPass
    /\ trip' = TripAfter(trip, painted')
    /\ UNCHANGED selected

\* the widget after setGlyphRecords on one of the record sequences, shown at
\* one of the widths, wrapping or not, filling the glyphs or not
InitTrip ==
    /\ glyphRecords \in SeqsUpTo(RectRecords, MaxLine)
    /\ width \in Widths
    /\ wrapLines \in BOOLEAN
    /\ pointSize = RInt(150)
    /\ upm = NewUpm(glyphRecords, 1000)
    /\ descender = NewDescender(glyphRecords, -250)
    /\ scale = CalcScale(pointSize, upm).scale
    /\ inverseScale = CalcScale(pointSize, upm).inverseScale
    /\ lineHeight = Rat(11, 10)
    /\ rightToLeft = FALSE
    /\ showLayers = FALSE
    /\ sizeHint = SizeHintOf(glyphRecords, scale, pointSize, lineHeight,
                             wrapLines, width)
    /\ painted = NotPainted
    /\ layerAttrs = ShowLayersAttrs(glyphRecords, showLayers)
    /\ selected = {}
    /\ trip = <<>>
    /\ drawn = <<>>
    /\ widgetClass = "GlyphLineWidget"
    /\ fallbackAttrs \in FillChoices
    /\ NoSubscriptions /\ NoOtherControls /\ PlainFonts /\ applyKerning = FALSE

NextTrip ==
    \/ \E v \in BOOLEAN : SetRightToLeft(v)
    \/ TrackedPaintEvent

SpecTrip == InitTrip /\ [][NextTrip]_vars

\* ------------------------------------------------------------------------
\* C14: LTR -> RTL -> LTR
\* ------------------------------------------------------------------------

\* the rectangle reflected about the vertical centre line of a w-wide viewport
MirrorRect(r, w) == <<RSub(RSub(RInt(w), r[1]), r[3]), r[2], r[3], r[4]>>

MirrorTable(d, w) ==
    [k \in {MirrorRect(r, w) : r \in DOMAIN d} |->
        d[CHOOSE r \in DOMAIN d : MirrorRect(r, w) = k]]

\* no record of the pass has an xPlacement
NoXPlacement(pass) ==
    \A i \in 1..Len(pass.from.records) : pass.from.records[i].xPlacement = 0

\* C14 (as stated): over unchanged records, width and scale, the table of the
\* LTR pass after an RTL pass is the table of the LTR pass before it, and the
\* table of the RTL pass is the mirror image of the LTR one, for all records.
C14_RoundTripMirrorsAll ==
    /\ Len(trip) = 3 => trip[3].rects = trip[1].rects
    /\ Len(trip) >= 2 =>
           trip[2].rects = MirrorTable(trip[1].rects, trip[1].from.params.width)

\* C14 (amended): over unchanged records, width and scale, the table of the
\* LTR pass after an RTL pass is the table of the LTR pass before it; the table
\* of the RTL pass is the mirror image of the LTR one when no record has an
\* xPlacement.
C14_RoundTripAndMirror ==
    /\ Len(trip) = 3 => trip[3].rects = trip[1].rects
    /\ (Len(trip) >= 2 /\ NoXPlacement(trip[1])) =>
           trip[2].rects = MirrorTable(trip[1].rects, trip[1].from.params.width)

\* a round trip over two records without xPlacement, wrapped onto two lines
\* in a 60-wide viewport
C14_Witness ==
    /\ Len(trip) = 3
    /\ lastOp.op = "paintEvent"
    /\ Len(glyphRecords) = 2
    /\ NoXPlacement(trip[1])
    /\ glyphRecords[1].xAdvance = -50 /\ glyphRecords[2].advanceWidth = 500
    /\ wrapLines /\ width = 60
    /\ ~trip[1].aborted /\ ~trip[2].aborted /\ ~trip[3].aborted
    /\ Cardinality(DOMAIN trip[1].rects) = 2
    /\ trip[2].rects # trip[1].rects
    /\ painted.rects = trip[1].rects

\* ------------------------------------------------------------------------
\* C15: one table entry for each record
\* ------------------------------------------------------------------------

\* C15: after every layout pass that ran to its end over N records the table
\* of hit-test rectangles holds exactly N entries, one rectangle for each
\* record index 0..N-1.
C15_TableHoldsEveryRecord ==
    LET n == Len(painted.from.records)
    IN  ~painted.aborted =>
            /\ Cardinality(DOMAIN painted.rects) = n
            /\ {painted.rects[r] : r \in DOMAIN painted.rects} = 0..(n - 1)

\* ------------------------------------------------------------------------
\* The line widget on its own: selection
\* ------------------------------------------------------------------------

\* QRectF(*rect).contains(point): edges included, no point in a rectangle
\* without width or height
RectContains(r, pt) ==
    /\ r[3] # RInt(0) /\ r[4] # RInt(0)
    /\ RLe(r[1], pt[1]) /\ RLe(pt[1], RAdd(r[1], r[3]))
    /\ RLe(r[2], pt[2]) /\ RLe(pt[2], RAdd(r[2], r[4]))

\* for rect, recordIndex in self._glyphRecordsRects.items(): the index of the
\* last rectangle, in the order the keys were first stored, that contains the
\* point; {} for None
HitTest(pass, pt) ==
    LET firsts == {i \in 1..Len(pass.items) :
                      /\ pass.items[i].rect \in DOMAIN pass.rects
                      /\ \A j \in 1..(i - 1) : pass.items[j].rect # pass.items[i].rect}
        hits == {i \in firsts : RectContains(pass.items[i].rect, pt)}
    IN  IF hits = {} THEN {}
        ELSE {pass.rects[pass.items[Max(hits)].rect]}

\* GlyphLineWidget.mousePressEvent(event) with the left button at pt
MousePressEvent(pt) ==
    /\ selected' = HitTest(painted, pt)
    /\ lastOp' = [Op("mousePressEvent") EXCEPT !.result = "lookup"]
    /\ UNCHANGED <<controlVars, kernVars, subVars, glyphRecords, scaleVars, layoutVars,
                   attrVars, trip, drawn>>

\* GlyphLineWidget.setSelected(value); the table is looked up when a record
\* is selected and the widget's parent is a QScrollArea
SetSelected(value, inScrollArea) ==
    /\ selected' = value
    /\ lastOp' = [Op("setSelected") EXCEPT
                     !.result = IF value # {} /\ inScrollArea THEN "lookup"
                                ELSE None]
    /\ UNCHANGED <<controlVars, kernVars, subVars, glyphRecords, scaleVars, layoutVars,
                   attrVars, trip, drawn>>

\* points of the widget
Points == {<<RInt(20), RInt(30)>>, <<RInt(120), RInt(30)>>, <<RInt(20), RInt(300)>>}

\* None or a record index
SelectionInputs == {{}} \cup {{i} : i \in 0..(MaxLine - 1)}

InitSelect == InitPaint

NextSelect ==
    \/ \E recs \in SeqsUpTo(PaintRecords, MaxLine) : SetGlyphRecords(recs)
    \/ \E v \in BOOLEAN : SetRightToLeft(v)
    \/ \E w \in Widths : Resize(w)
    \/ PaintEvent
    \/ \E pt \in Points : MousePressEvent(pt)
    \/ \E v \in SelectionInputs, b \in BOOLEAN : SetSelected(v, b)

SpecSelect == InitSelect /\ [][NextSelect]_vars

\* ------------------------------------------------------------------------
\* C16: the table read by a hit test
\* ------------------------------------------------------------------------

\* C16: whenever a mouse press or a setSelected lookup reads the rectangle
\* table, the table is the one a layout pass over the current records, size,
\* scale and direction computes.
C16_TableIsCurrentWhenRead ==
    lastOp.result = "lookup" =>
        painted.rects
            = LayoutPass(glyphRecords, CurrentParams, rightToLeft, EmptyDict).rects

\* ------------------------------------------------------------------------
\* C17: closing the line widget
\* ------------------------------------------------------------------------

\* C17: after an accepted close event of the line widget no subscription of
\* the view remains.
C17_CloseRemovesSubscriptions ==
    lastOp.op = "closeEvent" => observers = {}

\* ------------------------------------------------------------------------
\* C18: metrics of records without a font
\* ------------------------------------------------------------------------

\* C18: after setGlyphRecords with one or more records none of whose glyphs
\* has a font, the layout uses unitsPerEm 1000 and descender -250, whatever
\* was displayed before.
C18_FontlessUsesDefaults ==
    (/\ lastOp.op = "setGlyphRecords"
     /\ glyphRecords # <<>>
     /\ RecordFonts(glyphRecords) = {}) =>
        (upm = 1000 /\ descender = -250)

\* ------------------------------------------------------------------------
\* The line widget on its own: drawing a glyph
\* ------------------------------------------------------------------------

\* the drawing flags of the line widget
DrawFlags == DOMAIN LineWidgetDefaults

\* the flags to switch on in the fallback table and for layerB
FlagChoices ==
    {c \in (SUBSET DrawFlags) \X (SUBSET DrawFlags) :
        Cardinality(c[1]) + Cardinality(c[2]) <= MaxFlags}

\* point sizes around the thresholds of drawPoints
DrawPointSizes == {RInt(150), RInt(176), RInt(251)}

\* layer sets of a glyph to draw: none, its own layer only, a second layer
\* above or below with or without a glyph of its name
LayerCases ==
    {[hasLayerSet |-> FALSE, order |-> <<>>, present |-> {}, own |-> None],
     [hasLayerSet |-> TRUE, order |-> <<"layerA">>, present |-> {"layerA"},
      own |-> "layerA"],
     [hasLayerSet |-> TRUE, order |-> <<"layerA", "layerB">>,
      present |-> {"layerA", "layerB"}, own |-> "layerA"],
     [hasLayerSet |-> TRUE, order |-> <<"layerA", "layerB">>,
      present |-> {"layerA"}, own |-> "layerA"],
     [hasLayerSet |-> TRUE, order |-> <<"layerB", "layerA">>,
      present |-> {"layerA", "layerB"}, own |-> "layerA"]}

\* the widget without records after setPointSize, setShowLayers and
\* setDrawingAttribute calls
InitDraw ==
    /\ \E c \in FlagChoices :
          /\ fallbackAttrs = [a \in DrawFlags |-> IF a \in c[1] THEN "True" ELSE "False"]
          /\ layerAttrs = IF c[2] = {} THEN EmptyDict
                          ELSE [l \in {"layerB"} |-> [a \in c[2] |-> "True"]]
    /\ pointSize \in DrawPointSizes
    /\ showLayers \in BOOLEAN
    /\ glyphRecords = <<>>
    /\ upm = 1000
    /\ descender = -250
    /\ scale = CalcScale(pointSize, upm).scale
    /\ inverseScale = CalcScale(pointSize, upm).inverseScale
    /\ lineHeight = Rat(11, 10)
    /\ rightToLeft = FALSE
    /\ wrapLines = FALSE
    /\ width = 200
    /\ sizeHint = SizeHintOf(glyphRecords, scale, pointSize, lineHeight,
                             wrapLines, width)
    /\ painted = NotPainted
    /\ selected = {}
    /\ trip = <<>>
    /\ drawn = <<>>
    /\ widgetClass = "GlyphLineWidget"
    /\ NoSubscriptions /\ NoOtherControls /\ PlainFonts /\ applyKerning = FALSE

\* GlyphLineWidget.drawGlyph(painter, glyph, rect) for a glyph with the layer
\* set gl
DrawGlyph(gl) ==
    /\ drawn' = DrawGlyphCalls(DrawAttrs(fallbackAttrs, layerAttrs, showLayers,
                                         pointSize), gl).calls
    /\ lastOp' = Op("drawGlyph")
    /\ UNCHANGED <<controlVars, kernVars, subVars, glyphRecords, scaleVars, layoutVars,
                   attrVars, selected, trip>>

NextDraw == \E gl \in LayerCases : DrawGlyph(gl)

SpecDraw == InitDraw /\ [][NextDraw]_vars

\* ------------------------------------------------------------------------
\* C19: the order of the draw operations
\* ------------------------------------------------------------------------

\* the place of a helper in the order of C19
Rank(helper) ==
    CASE helper = "drawImage" -> 1
      [] helper = "drawBlues" -> 2
      [] helper = "drawFamilyBlues" -> 3
      [] helper = "drawMargins" -> 4
      [] helper = "drawVerticalMetrics" -> 5
      [] helper = "drawFillAndStroke" -> 6
      [] helper = "drawPoints" -> 7
      [] helper = "drawAnchors" -> 8

BaseOnly == {"drawBlues", "drawFamilyBlues", "drawVerticalMetrics"}

\* the calls between the two hooks
Inner(calls) == SubSeq(calls, 2, Len(calls) - 1)

\* C19: drawGlyph begins with the background and ends with the foreground
\* hook; between them the calls for one layer are together and in the order
\* image, postscript blues, family blues, margins, vertical metrics,
\* fill/stroke, points, anchors, and blues, family blues and vertical metrics
\* are called for the base layer only.
C19_FixedDrawOrder ==
    lastOp.op = "drawGlyph" =>
        LET in == Inner(drawn)
        IN  /\ Len(drawn) >= 2
            /\ drawn[1].op = "drawGlyphBackground"
            /\ drawn[Len(drawn)].op = "drawGlyphForeground"
            /\ \A i \in 1..Len(in) :
                 /\ in[i].op \in BaseOnly => in[i].layer = None
                 /\ \A j \in (i + 1)..Len(in) :
                      /\ in[i].layer = in[j].layer => Rank(in[i].op) < Rank(in[j].op)
                      /\ in[i].layer # in[j].layer =>
                             \A k \in (j + 1)..Len(in) : in[k].layer # in[i].layer

\* ------------------------------------------------------------------------
\* C20: the point flags
\* ------------------------------------------------------------------------

\* what drawGlyphPoints was asked to draw for the base layer and did
BasePointsDrawn ==
    UNION {drawn[i].detail : i \in {k \in 1..Len(drawn) :
                                      /\ drawn[k].op = "drawPoints"
                                      /\ drawn[k].layer = None
                                      /\ ~drawn[k].raised}}

\* C20: for the base layer, start, on-curve and off-curve points are drawn
\* exactly when their own flag is on and the point size is > 175, and the
\* coordinates exactly when their flag is on and the point size is > 250.
C20_PointFlagsIndependent ==
    lastOp.op = "drawGlyph" =>
        BasePointsDrawn = PointsDetail(fallbackAttrs, layerAttrs, pointSize, None)

\* ------------------------------------------------------------------------
\* AccordionGroup (controls/accordionBox.py)
\* ------------------------------------------------------------------------

\* the glyph line view as constructed, left alone by the other controls
LineViewIdle ==
    WidgetInit /\ NoSubscriptions /\ PlainFonts /\ applyKerning = FALSE

\* the fields the group's methods work on; raised: a TypeError was raised
GroupState ==
    [checked |-> checked, current |-> currentAccordion, shadowed |-> shadowed,
     raised |-> FALSE]

\* self._setCurrentAccordion(accordion): the previous accordion is unchecked
\* with its toggled signal disconnected from the group.  Once the instance
\* attribute of that name is None the call raises TypeError.
SetCurrentAccordion(g, acc) ==
    IF g.shadowed THEN [g EXCEPT !.raised = TRUE]
    ELSE [g EXCEPT !.checked = [b \in Boxes |->
                                   IF b \in g.current THEN FALSE ELSE g.checked[b]],
                   !.current = acc]

\* AccordionGroup._accordionToggled(), the sender being accordion a
AccordionToggled(g, a, excl) ==
    IF ~excl THEN g
    ELSE IF g.checked[a] THEN SetCurrentAccordion(g, {a})
    ELSE IF g.current = {a} THEN SetCurrentAccordion(g, {})
    ELSE g

\* a.setChecked(value): toggled is emitted when the state changes, and runs
\* the group's slot for the boxes connected to it (its members).  An
\* exception raised in the slot does not reach the caller of setChecked.
SetChecked(g, a, value, members, excl) ==
    IF g.checked[a] = value THEN g
    ELSE LET g1 == [g EXCEPT !.checked[a] = value]
         IN  IF a \in members THEN AccordionToggled(g1, a, excl) ELSE g1

\* the orders in which a set may be iterated
Orders(S) ==
    {f \in [1..Cardinality(S) -> S] : \A i, j \in DOMAIN f : f[i] = f[j] => i = j}

\* AccordionGroup.setExclusive(True): the loop over self._accordions, from
\* the i-th accordion of the iteration order on
RECURSIVE ExclusiveLoop(_, _, _, _)
ExclusiveLoop(g, order, i, members) ==
    IF i > Len(order) THEN g
    ELSE LET a == order[i]
         IN  IF ~g.checked[a] THEN ExclusiveLoop(g, order, i + 1, members)
             ELSE IF g.current = {}
                  THEN LET g1 == SetCurrentAccordion(g, {a})
                       IN  IF g.shadowed THEN g1
                           ELSE ExclusiveLoop(g1, order, i + 1, members)
                  ELSE ExclusiveLoop(SetChecked(g, a, FALSE, members, TRUE),
                                     order, i + 1, members)

\* what a group method leaves behind
GroupResult(name, a, g) ==
    /\ checked' = g.checked
    /\ currentAccordion' = g.current
    /\ lastOp' = [Op(name) EXCEPT !.value = a,
                     !.result = IF g.raised THEN "TypeError" ELSE None]

\* AccordionBox(title, parent): a box is constructed outside the group
NewAccordionBox(b) ==
    /\ b \notin boxes
    /\ boxes' = boxes \cup {b}
    /\ lastOp' = [Op("AccordionBox") EXCEPT !.value = b]
    /\ UNCHANGED <<checked, accordions, currentAccordion, exclusive, shadowed,
                   lineVars, editorVars, listVars>>

\* AccordionGroup.addAccordion(accordion)
AddAccordion(a) ==
    /\ a \in boxes
    /\ accordions' = accordions \cup {a}
    /\ GroupResult("addAccordion", a,
                   IF exclusive /\ checked[a]
                   THEN SetCurrentAccordion(GroupState, {a}) ELSE GroupState)
    /\ UNCHANGED <<boxes, exclusive, shadowed,
                   lineVars, editorVars, listVars>>

\* AccordionGroup.createAccordion(title, parent)
CreateAccordion(b) ==
    /\ b \notin boxes
    /\ boxes' = boxes \cup {b}
    /\ accordions' = accordions \cup {b}
    /\ GroupResult("createAccordion", b,
                   IF exclusive /\ checked[b]
                   THEN SetCurrentAccordion(GroupState, {b}) ELSE GroupState)
    /\ UNCHANGED <<exclusive, shadowed,
                   lineVars, editorVars, listVars>>

\* AccordionGroup.removeAccordion(accordion): the last statement assigns None
\* to the attribute _setCurrentAccordion
RemoveAccordion(a) ==
    /\ a \in boxes
    /\ accordions' = accordions \ {a}
    /\ shadowed' = (shadowed \/ currentAccordion = {a})
    /\ lastOp' = [Op("removeAccordion") EXCEPT !.value = a]
    /\ UNCHANGED <<boxes, checked, currentAccordion, exclusive,
                   lineVars, editorVars, listVars>>

\* AccordionGroup.setExclusive(exclusive)
SetExclusive(value) ==
    /\ exclusive' = value
    /\ IF value
       THEN \E order \in Orders(accordions) :
               GroupResult("setExclusive", 0,
                           ExclusiveLoop(GroupState, order, 1, accordions))
       ELSE GroupResult("setExclusive", 0, [GroupState EXCEPT !.current = {}])
    /\ UNCHANGED <<boxes, accordions, shadowed,
                   lineVars, editorVars, listVars>>

\* the user folds or unfolds box a: a.setChecked(not a.isChecked())
Toggle(a) ==
    /\ a \in boxes
    /\ GroupResult("toggle", a,
                   SetChecked(GroupState, a, ~checked[a], accordions, exclusive))
    /\ UNCHANGED <<boxes, accordions, exclusive, shadowed,
                   lineVars, editorVars, listVars>>

InitGroup == LineViewIdle /\ NoOtherControls

NextGroup ==
    \/ \E b \in Boxes : NewAccordionBox(b)
    \/ \E b \in Boxes : CreateAccordion(b)
    \/ \E a \in Boxes : AddAccordion(a)
    \/ \E a \in Boxes : RemoveAccordion(a)
    \/ \E v \in BOOLEAN : SetExclusive(v)
    \/ \E a \in Boxes : Toggle(a)

SpecGroup == InitGroup /\ [][NextGroup]_vars

\* the members of the group that are checked
CheckedMembers == {a \in accordions : checked[a]}

\* C21: while the group is exclusive, at most one of its accordions is
\* checked
C21_ExclusiveAtMostOneChecked == exclusive => Cardinality(CheckedMembers) <= 1

\* C22: currentAccordion() is the member of the group that is checked, and
\* None exactly when no member is checked
C22_CurrentIsTheCheckedOne ==
    /\ currentAccordion = {} <=> CheckedMembers = {}
    /\ currentAccordion \subseteq CheckedMembers

\* C23: addAccordion(a) for a member a of the group changes neither the
\* membership nor any box's checked state nor currentAccordion()
C23_AddPresentIsNoOp ==
    [][\A a \in accordions :
          AddAccordion(a) =>
             UNCHANGED <<accordions, checked, currentAccordion>>]_vars

\* C24: after removeAccordion(a), a is not a member and currentAccordion()
\* is not a; it is None if a was the current accordion
C24_RemovedIsNotCurrent ==
    [][\A a \in boxes :
          RemoveAccordion(a) =>
             /\ a \notin accordions'
             /\ currentAccordion' # {a}
             /\ currentAccordion = {a} => currentAccordion' = {}]_vars

\* ------------------------------------------------------------------------
\* BaseCodeEditor: the indent guessed from a text (controls/baseCodeEditor.py)
\* ------------------------------------------------------------------------

Space == " "
Tab == "\t"
Newline == "\n"

\* the characters of the texts: a space, a tab, a letter and a line break
Chars == {Space, Tab, "x", Newline}

\* ord(c)
Ord(c) == CASE c = Tab -> 9 [] c = Newline -> 10 [] c = Space -> 32 [] OTHER -> 120

Texts == UNION {[1..n -> Chars] : n \in 0..MaxText}

\* text.splitlines(), from character i on, cur being the line read so far;
\* no line is produced after a final line break
RECURSIVE SplitLines(_, _, _)
SplitLines(text, i, cur) ==
    IF i > Len(text) THEN (IF cur = <<>> THEN <<>> ELSE <<cur>>)
    ELSE IF text[i] = Newline THEN <<cur>> \o SplitLines(text, i + 1, <<>>)
    ELSE SplitLines(text, i + 1, Append(cur, text[i]))

\* not line.strip()
IsBlank(line) == \A i \in 1..Len(line) : line[i] \in {Space, Tab}

\* _whitespaceRE.match(line): the run of spaces and tabs the line starts
\* with; <<>> where match returns None
RECURSIVE LeadingRun(_)
LeadingRun(line) ==
    IF line = <<>> \/ Head(line) \notin {Space, Tab} THEN <<>>
    ELSE <<Head(line)>> \o LeadingRun(Tail(line))

\* the set `whitespace` gathered by the loop over the lines
GatheredWhitespace(text) ==
    LET lines == SplitLines(text, 1, <<>>)
    IN  {LeadingRun(lines[i]) : i \in {j \in 1..Len(lines) : ~IsBlank(lines[j])}}
           \ {<<>>}

\* a < b for Python strings: by code point, a proper prefix being smaller
StrLess(a, b) ==
    \E k \in 1..(Len(a) + 1) :
        /\ k <= Len(b)
        /\ \A i \in 1..(k - 1) : a[i] = b[i]
        /\ k = Len(a) + 1 \/ Ord(a[k]) < Ord(b[k])

\* min(whitespace) over a set of strings
PyMinStr(S) == CHOOSE a \in S : \A b \in S \ {a} : StrLess(a, b)

\* _guessMinWhitespace(text)
GuessMinWhitespace(text) ==
    LET whitespace == GatheredWhitespace(text)
    IN  IF whitespace = {} THEN FourSpaces
        ELSE LET smallest == PyMinStr(whitespace)
             IN  IF Head(smallest) = Tab THEN <<Tab>> ELSE smallest

\* BaseCodeEditor.setPlainText(text), with the setIndent call it makes
SetPlainText ==
    /\ plainText' = fileText
    /\ indent' = IF shouldGuessWhitespace THEN GuessMinWhitespace(fileText)
                 ELSE indent
    /\ lastOp' = Op("setPlainText")
    /\ UNCHANGED <<shouldGuessWhitespace, fileText, lineVars, groupVars, listVars>>

\* BaseCodeEditor.setShouldGuessWhitespace(value)
SetShouldGuessWhitespace(value) ==
    /\ shouldGuessWhitespace' = value
    /\ lastOp' = Op("setShouldGuessWhitespace")
    /\ UNCHANGED <<plainText, indent, fileText, lineVars, groupVars, listVars>>

\* BaseCodeEditor.setIndent(indent)
SetIndent(value) ==
    /\ indent' = value
    /\ lastOp' = Op("setIndent")
    /\ UNCHANGED <<plainText, shouldGuessWhitespace, fileText, lineVars,
                   groupVars, listVars>>

\* an editor as constructed and a text about to be loaded into it
InitEditor ==
    /\ LineViewIdle /\ GroupInit /\ ListModelInit
    /\ plainText = <<>>
    /\ indent = FourSpaces
    /\ shouldGuessWhitespace = TRUE
    /\ fileText \in Texts

NextEditor ==
    \/ SetPlainText
    \/ \E v \in BOOLEAN : SetShouldGuessWhitespace(v)
    \/ \E v \in {FourSpaces, <<Tab>>} : SetIndent(v)

SpecEditor == InitEditor /\ [][NextEditor]_vars

\* the runs of least length among a set of runs
Shortest(S) == {a \in S : \A b \in S : Len(a) <= Len(b)}

\* C25: the guessed indent is four spaces when no non-blank line starts
\* with whitespace, and otherwise the shortest leading run of a non-blank
\* line, a single tab standing for a run that starts with a tab
C25_GuessIsShortestRun ==
    (lastOp.op = "setPlainText" /\ shouldGuessWhitespace) =>
        LET runs == GatheredWhitespace(plainText)
        IN  IF runs = {} THEN indent = FourSpaces
            ELSE \E a \in Shortest(runs) :
                    indent = IF Head(a) = Tab THEN <<Tab>> ELSE a

\* ------------------------------------------------------------------------
\* GlyphLineWidget: the selected index and the records
\* ------------------------------------------------------------------------

\* setSelected(value) as its docstring asks for it: value is None or less
\* than the number of records in the widget
SetSelectedInRange(value, inScrollArea) ==
    /\ \A i \in value : i < Len(glyphRecords)
    /\ SetSelected(value, inScrollArea)

InitSelected == InitPaint

NextSelected ==
    \/ \E recs \in SeqsUpTo(PaintRecords, MaxLine) : SetGlyphRecords(recs)
    \/ PaintEvent
    \/ \E pt \in Points : MousePressEvent(pt)
    \/ \E v \in SelectionInputs, b \in BOOLEAN : SetSelectedInRange(v, b)

SpecSelected == InitSelected /\ [][NextSelected]_vars

\* C26: selected() is None or an index smaller than the number of records
\* in the widget
C26_SelectedIsARecord == \A i \in selected : i < Len(glyphRecords)

\* ------------------------------------------------------------------------
\* OneTwoListModel: removing rows (controls/listView.py)
\* ------------------------------------------------------------------------

\* the elements of the one-dimensional lists shown
RowValues == {"a", "b", "c", "d"}

Lists == UNION {[1..n -> RowValues] : n \in 0..MaxRows}

\* del lst[index], index counting from 0
DeleteAt(lst, index) ==
    SubSeq(lst, 1, index) \o SubSeq(lst, index + 2, Len(lst))

\* OneTwoListModel._removeRows(row, count): the loop from index on;
\* del raises IndexError for an index past the end of the list
RECURSIVE RemoveLoop(_, _, _)
RemoveLoop(lst, index, stop) ==
    IF index >= stop THEN [list |-> lst, raised |-> FALSE]
    ELSE IF index >= Len(lst) THEN [list |-> lst, raised |-> TRUE]
    ELSE RemoveLoop(DeleteAt(lst, index), index + 1, stop)

\* AbstractListModel.removeRows(row, count) on a OneTwoListModel, for a
\* range of rows of the model
RemoveRows(row, count) ==
    /\ count >= 1
    /\ row + count <= Len(modelList)
    /\ LET r == RemoveLoop(modelList, row, row + count)
       IN  /\ modelList' = r.list
           /\ lastOp' = [Op("removeRows") EXCEPT !.attr = row, !.value = count,
                            !.result = IF r.raised THEN "IndexError" ELSE "True"]
    /\ UNCHANGED <<lineVars, groupVars, editorVars>>

\* ListView.setList(lst) over a one-dimensional list
SetList(lst) ==
    /\ modelList' = lst
    /\ lastOp' = Op("setList")
    /\ UNCHANGED <<lineVars, groupVars, editorVars>>

InitList ==
    /\ LineViewIdle /\ GroupInit /\ EditorInit
    /\ modelList \in Lists

NextList ==
    \/ \E row \in 0..(MaxRows - 1), count \in 1..MaxRows : RemoveRows(row, count)
    \/ \E lst \in Lists : SetList(lst)

SpecList == InitList /\ [][NextList]_vars

\* the list without its rows row .. row + count - 1
WithoutRows(lst, row, count) ==
    SubSeq(lst, 1, row) \o SubSeq(lst, row + count + 1, Len(lst))

\* C27: removeRows(row, count) over rows of the model leaves the old list
\* with the slice row .. row + count - 1 deleted
C27_RemoveRowsDeletesSlice ==
    [][\A row \in 0..(MaxRows - 1), count \in 1..MaxRows :
          RemoveRows(row, count) =>
             modelList' = WithoutRows(modelList, row, count)]_vars

\* ------------------------------------------------------------------------
\* GlyphLineWidget: the scale fields
\* ------------------------------------------------------------------------

\* C28: inverseScale is 1/scale and pointSize is unitsPerEm * scale
C28_ScaleFieldsConsistent ==
    /\ inverseScale = RDiv(RInt(1), scale)
    /\ pointSize = RMul(RInt(upm), scale)
====
